---- MODULE Spec2Model ----
(***************************************************************************)
(* State-machine model of the LLM gateway of Local-AI-Chat:                *)
(*   backend/app/services/llm_service.py     (LLMEndpoint, LLMService)     *)
(*   backend/app/services/context_service.py (ContextService)              *)
(*   backend/app/routes/websocket.py (ConnectionManager, websocket_chat)   *)
(*                                                                         *)
(* One LLMService instance is modelled.  Every call site of the repository *)
(* builds its own instance and awaits one call at a time on it, so calls   *)
(* on an instance are sequential: `call` is the single call in progress.   *)
(* The class itself allows calls side by side on one instance; these are   *)
(* `generations`, used by SpecOverlap alone.                               *)
(* The WebSocket sessions share the module-level ConnectionManager and the *)
(* Message rows of a chat; each session holds the LLMService it built.      *)
(***************************************************************************)
EXTENDS Integers, Sequences, FiniteSets, TLC

VARIABLES
    endpoints,              \* LLMService.endpoints: the registry, in configuration order
    default_service_name,   \* LLMService.default_service_name (0: not configured)
    call,                   \* the call in progress on the service, and its position
    consec,                 \* history: the failures recorded on the first endpoint of
                            \* the registry since its last recorded success or reset
    ctx,                    \* the last ContextService.build_messages_context call
    generations,            \* the generate_response calls awaited side by side on the
                            \* service, and history: what they have recorded
    now,                    \* datetime.utcnow(), in heartbeat intervals
    manager,                \* the global ConnectionManager: its three dicts
    socket,                 \* per WebSocket: connection state, inbound queue, frames sent
    session,                \* per WebSocket: the websocket_chat coroutine serving it
    llm_services,            \* per WebSocket: the registry of the session's LLMService()
    heartbeat,              \* per WebSocket: the _heartbeat_task created by its connect
    db                      \* the Message rows of the chat

serviceVars == <<endpoints, default_service_name, call, consec, ctx, generations>>
sessionVars == <<now, manager, socket, session, llm_services, heartbeat, db>>
vars == <<endpoints, default_service_name, call, consec, ctx, generations,
          now, manager, socket, session, llm_services, heartbeat, db>>

-----------------------------------------------------------------------------
(* Bounds of the model *)

MaxEndpoints == 2      \* endpoints in the registry
MaxSamples == 2        \* response-time samples recorded on the service
MaxLines == 3          \* lines the backend delivers on one stream
MaxTurns == 5          \* conversation turns handed to the context builder
MaxFrames == 2         \* frames the clients send, on all WebSockets together
MaxChunks == 2         \* fragments the backend yields on one session stream
MaxTicks == 4          \* heartbeat intervals the clock runs for
MaxFed == 11           \* samples recorded on an endpoint that starts without any
MaxOverlap == 4        \* generate_response calls awaited side by side on one service

(* Program constants *)

ErrorThreshold == 3    \* record_error: error_count >= 3 makes the endpoint unhealthy
SampleWindow == 100    \* record_response_time keeps the 100 latest samples
AverageWindow == 10    \* average_response_time averages the last 10 samples
DefaultMaxTokens == 4000   \* ContextService.max_tokens
CharsPerToken == 4     \* estimate_tokens: len(text) // 4
SummaryMinOlder == 4    \* _compress_context summarises more than 4 older messages
heartbeat_interval == 30   \* ConnectionManager.heartbeat_interval, seconds
connection_timeout == 90   \* ConnectionManager.connection_timeout, seconds
receive_timeout == 120     \* wait_for(websocket.receive_json(), timeout=120.0)

-----------------------------------------------------------------------------
(* Values *)

OLLAMA == "ollama"
LMSTUDIO == "lmstudio"
ServiceType == {OLLAMA, LMSTUDIO}

None == 0                               \* Python None (and the empty name)
ServiceNames == 1 .. (MaxEndpoints + 1) \* MaxEndpoints + 1 names no configured service
SampleTimes == {1, 2}                   \* elapsed seconds of a completed generation

RECURSIVE Sum(_)
Sum(s) == IF s = <<>> THEN 0 ELSE Head(s) + Sum(Tail(s))

\* s[-n:]
LastN(s, n) == IF Len(s) <= n THEN s ELSE SubSeq(s, Len(s) - n + 1, Len(s))

Indices(eps) == 1 .. Len(eps)

-----------------------------------------------------------------------------
(* LLMEndpoint *)

\* LLMEndpoint.__init__
LLMEndpoint(name, type) ==
    [name |-> name, type |-> type, is_healthy |-> TRUE,
     response_times |-> <<>>, error_count |-> 0]

\* mutant: the mean of every sample of the window
average_response_time_AllSamples(ep) ==
    IF ep.response_times = <<>>
    THEN [num |-> 0, den |-> 1]
    ELSE [num |-> Sum(ep.response_times), den |-> Len(ep.response_times)]

\* The average as the fraction num/den (the code divides floats); 0 without samples.
average_response_time(ep) ==
    IF ep.response_times = <<>>
    THEN [num |-> 0, den |-> 1]
    ELSE [num |-> Sum(LastN(ep.response_times, AverageWindow)),
          den |-> Len(LastN(ep.response_times, AverageWindow))]

\* a < b on fractions with positive denominators
AvgLess(a, b) == a.num * b.den < b.num * a.den

\* mutant: a recorded success clears the error counter
record_response_time_ClearsErrors(ep, time) ==
    LET appended == Append(ep.response_times, time)
    IN  [ep EXCEPT !.response_times =
            IF Len(appended) > SampleWindow THEN Tail(appended) ELSE appended,
                   !.error_count = 0]

record_response_time(ep, time) ==
    LET appended == Append(ep.response_times, time)
    IN  [ep EXCEPT !.response_times =
            IF Len(appended) > SampleWindow THEN Tail(appended) ELSE appended]

\* mutant: the counter stops at the threshold
record_error_Saturates(ep) ==
    LET n == IF ep.error_count >= ErrorThreshold THEN ep.error_count
             ELSE ep.error_count + 1
    IN  [ep EXCEPT !.error_count = n,
                   !.is_healthy = IF n >= ErrorThreshold THEN FALSE ELSE @]

\* mutant: the flag falls one error late
record_error_Late(ep) ==
    LET n == ep.error_count + 1
    IN  [ep EXCEPT !.error_count = n,
                   !.is_healthy = IF n > ErrorThreshold THEN FALSE ELSE @]

record_error(ep) ==
    LET n == ep.error_count + 1
    IN  [ep EXCEPT !.error_count = n,
                   !.is_healthy = IF n >= ErrorThreshold THEN FALSE ELSE @]

\* mutant: the reset forgets the counter
reset_health_KeepsCount(ep) == [ep EXCEPT !.is_healthy = TRUE]

reset_health(ep) == [ep EXCEPT !.is_healthy = TRUE, !.error_count = 0]

-----------------------------------------------------------------------------
(* LLMService._select_endpoint *)

\* for endpoint in self.endpoints: if endpoint.name == name and endpoint.is_healthy:
\*     return endpoint          (0 when the loop falls through)
RECURSIVE FirstHealthyNamed(_, _, _)
FirstHealthyNamed(eps, name, i) ==
    IF i > Len(eps) THEN None
    ELSE IF eps[i].name = name /\ eps[i].is_healthy THEN i
    ELSE FirstHealthyNamed(eps, name, i + 1)

\* [ep for ep in self.endpoints if ep.is_healthy], as indices in registry order
RECURSIVE HealthyFrom(_, _)
HealthyFrom(eps, i) ==
    IF i > Len(eps) THEN <<>>
    ELSE IF eps[i].is_healthy THEN <<i>> \o HealthyFrom(eps, i + 1)
    ELSE HealthyFrom(eps, i + 1)

\* mutant: a later candidate replaces an equally fast earlier one
RECURSIVE MinByAverage_LastOfTies(_, _, _)
MinByAverage_LastOfTies(eps, cands, best) ==
    IF cands = <<>> THEN best
    ELSE LET c == Head(cands)
         IN  MinByAverage_LastOfTies(eps, Tail(cands),
                IF AvgLess(average_response_time(eps[best]), average_response_time(eps[c]))
                THEN best ELSE c)

\* min(candidates, key=lambda ep: ep.average_response_time): Python's min keeps the
\* first element and replaces it only by a strictly smaller one.
RECURSIVE MinByAverage(_, _, _)
MinByAverage(eps, cands, best) ==
    IF cands = <<>> THEN best
    ELSE LET c == Head(cands)
         IN  MinByAverage(eps, Tail(cands),
                IF AvgLess(average_response_time(eps[c]), average_response_time(eps[best]))
                THEN c ELSE best)

\* mutant: no fallback to the whole registry
FallbackCandidates_None(eps, healthy) == healthy

\* `if not healthy_endpoints: ...; healthy_endpoints = self.endpoints`
FallbackCandidates(eps, healthy) ==
    IF healthy = <<>> THEN [i \in Indices(eps) |-> i] ELSE healthy

\* mutant: the fallback resets every endpoint, healthy ones or not
_select_endpoint_AlwaysResets(eps, default, preferred_service) ==
    LET byPref    == IF preferred_service # None
                     THEN FirstHealthyNamed(eps, preferred_service, 1) ELSE None
        byDefault == IF default # None
                     THEN FirstHealthyNamed(eps, default, 1) ELSE None
        healthy   == HealthyFrom(eps, 1)
        resetAll  == [i \in Indices(eps) |-> reset_health(eps[i])]
        cands     == FallbackCandidates(eps, healthy)
    IN  IF byPref # None THEN [ret |-> byPref, eps |-> eps, swept |-> FALSE]
        ELSE IF byDefault # None THEN [ret |-> byDefault, eps |-> eps, swept |-> FALSE]
        ELSE [ret   |-> IF cands = <<>> THEN None
                        ELSE MinByAverage(eps, Tail(cands), Head(cands)),
              eps   |-> resetAll,
              swept |-> healthy = <<>>]

\* mutant: a preferred endpoint that is unhealthy is reset and tried again
_select_endpoint_RetriesPreferred(eps, default, preferred_service) ==
    LET named     == {i \in Indices(eps) : eps[i].name = preferred_service}
        first     == CHOOSE i \in named : \A j \in named : i <= j
        byDefault == IF default # None
                     THEN FirstHealthyNamed(eps, default, 1) ELSE None
        healthy   == HealthyFrom(eps, 1)
        resetAll  == [i \in Indices(eps) |-> reset_health(eps[i])]
        cands     == FallbackCandidates(eps, healthy)
    IN  IF named # {}
        THEN [ret |-> first, eps |-> [eps EXCEPT ![first] = reset_health(@)],
              swept |-> FALSE]
        ELSE IF byDefault # None THEN [ret |-> byDefault, eps |-> eps, swept |-> FALSE]
        ELSE [ret   |-> IF cands = <<>> THEN None
                        ELSE MinByAverage(eps, Tail(cands), Head(cands)),
              eps   |-> IF healthy = <<>> THEN resetAll ELSE eps,
              swept |-> healthy = <<>>]

\* The selected endpoint (its index, None for no endpoint), the registry after the
\* call, and whether the call reset every endpoint.
_select_endpoint(eps, default, preferred_service) ==
    LET byPref    == IF preferred_service # None
                     THEN FirstHealthyNamed(eps, preferred_service, 1) ELSE None
        byDefault == IF default # None
                     THEN FirstHealthyNamed(eps, default, 1) ELSE None
        healthy   == HealthyFrom(eps, 1)
        resetAll  == [i \in Indices(eps) |-> reset_health(eps[i])]
        cands     == FallbackCandidates(eps, healthy)
    IN  IF byPref # None THEN [ret |-> byPref, eps |-> eps, swept |-> FALSE]
        ELSE IF byDefault # None THEN [ret |-> byDefault, eps |-> eps, swept |-> FALSE]
        ELSE [ret   |-> IF cands = <<>> THEN None
                        ELSE MinByAverage(eps, Tail(cands), Head(cands)),
              eps   |-> IF healthy = <<>> THEN resetAll ELSE eps,
              swept |-> healthy = <<>>]

-----------------------------------------------------------------------------
(* JSON values and stream lines, as far as the service looks into them *)

Contents == {"", "He", "llo"}

JsonObject(fields) == [type |-> "object", fields |-> fields]
JsonNumber == [type |-> "number"]          \* e.g. the body 5
JsonArray == [type |-> "array"]            \* e.g. the body [1]
NoJson == [type |-> "none"]                \* no value (the model's marker)

IsObject(v) == v.type = "object"

\* "k" in data, for a dict
Has(v, k) == k \in DOMAIN v.fields
\* bool(x) of a str, of a list
Truthy(x) == x # ""
NonEmpty(xs) == Len(xs) > 0

\* Variant A (Ollama /api/chat) objects
OllamaChunk(c, done) == JsonObject([message |-> [role |-> "assistant", content |-> c],
                                    done |-> done])
OllamaNoMessage(done) == JsonObject([model |-> "m", done |-> done])
OllamaNoDoneKey(c) == JsonObject([message |-> [content |-> c]])
OllamaNoContent == JsonObject([message |-> [role |-> "assistant"], done |-> FALSE])

\* Variant B (OpenAI-compatible /v1/chat/completions) objects
SseChunk(c) == JsonObject([choices |-> <<[index |-> 0, delta |-> [content |-> c]]>>])
SseRoleChunk == JsonObject([choices |-> <<[index |-> 0, delta |-> [role |-> "assistant"]]>>])
SseNoDelta == JsonObject([choices |-> <<[index |-> 0]>>])
SseNoChoices == JsonObject([choices |-> <<>>])
SseUsage == JsonObject([usage |-> "u"])

\* A line of the response body is prefix \o payload; the payload is a JSON text
\* or a text that is no JSON.
DataPrefix == "data: "
JsonText(v) == [kind |-> "json", value |-> v]
PlainText(t) == [kind |-> "text", text |-> t]
Line(prefix, payload) == [prefix |-> prefix, payload |-> payload]

BlankLine == Line("", PlainText(""))
DoneFrame == Line(DataPrefix, PlainText("[DONE]"))

\* line.strip() is empty
IsBlank(line) == line.prefix = "" /\ line.payload = PlainText("")

\* json.loads(text): the value, or JSONDecodeError.  "", "[DONE]", "{garbage" and
\* anything behind a "data: " prefix are no JSON documents.
json_loads(prefix, payload) ==
    IF prefix = "" /\ payload.kind = "json"
    THEN [ok |-> TRUE, value |-> payload.value]
    ELSE [ok |-> FALSE, value |-> NoJson]

\* What one pass of a stream loop does: the fragments it yields, whether it
\* records the response time and breaks, whether it raises.
Step(yield, done, raises) == [yield |-> yield, done |-> done, raises |-> raises]
Skip == Step(<<>>, FALSE, FALSE)

\* mutant: the content is yielded without the `if content` test
Fragment_Unchecked(content) == <<content>>

\* `if content: yield content`
Fragment(content) == IF Truthy(content) THEN <<content>> ELSE <<>>

\* mutant: the terminal marker is tested before the content is yielded
OllamaLine_DoneFirst(line) ==
    IF IsBlank(line) THEN Skip
    ELSE LET parsed == json_loads(line.prefix, line.payload)
             data   == parsed.value
         IN  IF ~parsed.ok THEN Skip
             ELSE IF ~IsObject(data) THEN Step(<<>>, FALSE, TRUE)
             ELSE LET content == IF Has(data, "message") /\ "content" \in DOMAIN data.fields.message
                                 THEN data.fields.message.content ELSE ""
                      done    == IF Has(data, "done") THEN data.fields.done ELSE FALSE
                  IN  Step(IF done THEN <<>> ELSE Fragment(content), done, FALSE)

\* stream_response, OLLAMA branch: the body of `async for line in response.aiter_lines()`
OllamaLine(line) ==
    IF IsBlank(line) THEN Skip
    ELSE LET parsed == json_loads(line.prefix, line.payload)
             data   == parsed.value
         IN  IF ~parsed.ok THEN Skip                      \* except json.JSONDecodeError
             ELSE IF ~IsObject(data) THEN Step(<<>>, FALSE, TRUE)   \* TypeError/AttributeError
             ELSE LET content == IF Has(data, "message") /\ "content" \in DOMAIN data.fields.message
                                 THEN data.fields.message.content ELSE ""
                      done    == IF Has(data, "done") THEN data.fields.done ELSE FALSE
                  IN  Step(Fragment(content), done, FALSE)

\* stream_response, LMSTUDIO branch: a frame's parsed payload
\* (`if "choices" in data and data["choices"]: ...`)
LMStudioData(data) ==
    IF data = JsonNumber THEN Step(<<>>, FALSE, TRUE)    \* "choices" in 5: TypeError
    ELSE IF ~IsObject(data) THEN Skip                    \* "choices" in [1] is False
    ELSE IF Has(data, "choices") /\ NonEmpty(data.fields.choices)
         THEN LET first   == data.fields.choices[1]
                  content == IF "delta" \in DOMAIN first /\ "content" \in DOMAIN first.delta
                             THEN first.delta.content ELSE ""
              IN  Step(Fragment(content), FALSE, FALSE)
         ELSE Skip

\* mutant: a payload that fails to parse ends the stream with the exception
LMStudioLine_ParseErrorRaises(line) ==
    IF IsBlank(line) THEN Skip
    ELSE IF line.prefix # DataPrefix THEN Skip
    ELSE IF line.payload = PlainText("[DONE]") THEN Step(<<>>, TRUE, FALSE)
    ELSE LET parsed == json_loads("", line.payload)
         IN  IF ~parsed.ok THEN Step(<<>>, FALSE, TRUE) ELSE LMStudioData(parsed.value)

\* stream_response, LMSTUDIO branch: the body of `async for line in response.aiter_lines()`
LMStudioLine(line) ==
    IF IsBlank(line) THEN Skip
    ELSE IF line.prefix # DataPrefix THEN Skip            \* not line.startswith("data: ")
    ELSE IF line.payload = PlainText("[DONE]") THEN Step(<<>>, TRUE, FALSE)
    ELSE LET parsed == json_loads("", line.payload)       \* json.loads(line[6:])
         IN  IF ~parsed.ok THEN Skip                      \* except json.JSONDecodeError
             ELSE LMStudioData(parsed.value)

StreamLineStep(type, line) ==
    IF type = OLLAMA THEN OllamaLine(line) ELSE LMStudioLine(line)

\* mutant: the OpenAI body is returned as it came
NormalizeResponse_Passthrough(type, body) == [raises |-> FALSE, result |-> body]

\* generate_response, "Normalize response format": the result, or an exception
\* (KeyError, TypeError) raised inside the try block.
NormalizeResponse(type, body) ==
    IF type # LMSTUDIO THEN [raises |-> FALSE, result |-> body]
    ELSE IF body = JsonNumber THEN [raises |-> TRUE, result |-> NoJson]
    ELSE IF ~IsObject(body) THEN [raises |-> FALSE, result |-> body]
    ELSE IF Has(body, "choices") /\ NonEmpty(body.fields.choices)
         THEN LET first == body.fields.choices[1]
              IN  IF "message" \in DOMAIN first /\ "content" \in DOMAIN first.message
                  THEN [raises |-> FALSE,
                        result |-> JsonObject([message |-> [role |-> "assistant",
                                                            content |-> first.message.content],
                                               done |-> TRUE])]
                  ELSE [raises |-> TRUE, result |-> NoJson]   \* KeyError
         ELSE [raises |-> FALSE, result |-> body]

\* The lines and bodies the backends send in the model
OllamaLines ==
    {BlankLine, Line("", PlainText("{garbage")), Line("", JsonText(JsonArray)),
     Line(DataPrefix, JsonText(SseChunk("He"))), Line("", JsonText(OllamaNoContent)),
     Line("", JsonText(OllamaNoMessage(TRUE))), Line("", JsonText(OllamaNoDoneKey("He")))}
    \cup {Line("", JsonText(OllamaChunk(c, d))) : c \in Contents, d \in BOOLEAN}

LMStudioLines ==
    {BlankLine, DoneFrame, Line("", PlainText("event: x")),
     Line(DataPrefix, PlainText("{garbage")), Line(DataPrefix, PlainText("")),
     Line(DataPrefix, JsonText(JsonNumber)), Line(DataPrefix, JsonText(JsonArray)),
     Line("", JsonText(SseChunk("He"))),
     Line(DataPrefix, JsonText(SseRoleChunk)), Line(DataPrefix, JsonText(SseNoDelta)),
     Line(DataPrefix, JsonText(SseNoChoices)), Line(DataPrefix, JsonText(SseUsage))}
    \cup {Line(DataPrefix, JsonText(SseChunk(c))) : c \in Contents}

LinesOf(type) == IF type = OLLAMA THEN OllamaLines ELSE LMStudioLines

\* the terminal marker of each protocol
DoneLineOf(type) ==
    IF type = OLLAMA THEN Line("", JsonText(OllamaChunk("", TRUE))) ELSE DoneFrame

OllamaBody(c) == JsonObject([message |-> [content |-> c], done |-> TRUE])
OpenAIBody(c) == JsonObject([choices |-> <<[message |-> [content |-> c]]>>])

Bodies ==
    {OllamaBody(c) : c \in Contents} \cup {OpenAIBody(c) : c \in Contents}
    \cup {SseNoChoices, SseChunk("He"), JsonNumber, JsonArray}

-----------------------------------------------------------------------------
(* The call in progress *)

IdleCall ==
    [pc |-> "idle", kind |-> "none", ep |-> None, contacted |-> {}, pref |-> None,
     swept |-> FALSE, lines |-> <<>>, yielded |-> <<>>, body |-> NoJson, result |-> NoJson]

\* Position after `endpoint = self._select_endpoint(preferred_service)` and the
\* `if not endpoint: raise` that follows it; the request goes to the selected endpoint.
Selected(kind, preferred_service, sel, pc) ==
    IF sel.ret = None
    THEN [IdleCall EXCEPT !.pc = "raised", !.kind = kind, !.pref = preferred_service,
                          !.swept = sel.swept]
    ELSE [IdleCall EXCEPT !.pc = pc, !.kind = kind, !.pref = preferred_service,
                          !.swept = sel.swept, !.ep = sel.ret, !.contacted = {sel.ret}]

\* The call has ended (returned, raised, closed); its argument is gone.
Ended(c, pc) == [c EXCEPT !.pc = pc, !.pref = None, !.swept = FALSE]

\* endpoint.record_error() of an except block
FailedEndpoints(eps, ep) == [eps EXCEPT ![ep] = record_error(eps[ep])]
\* endpoint.record_response_time(response_time)
TimedEndpoints(eps, ep, time) == [eps EXCEPT ![ep] = record_response_time(eps[ep], time)]

\* the samples recorded so far, on all endpoints
RECURSIVE Recorded(_)
Recorded(eps) == IF eps = <<>> THEN 0 ELSE Len(Head(eps).response_times) + Recorded(Tail(eps))
CanRecord == Recorded(endpoints) < MaxSamples

\* generate_response / stream_response / create_embeddings up to the request
Begin(kind, preferred_service, pc) ==
    /\ call.pc = "idle"
    /\ LET sel == _select_endpoint(endpoints, default_service_name, preferred_service)
       IN  /\ endpoints' = sel.eps
           /\ consec' = IF sel.swept THEN 0 ELSE consec
           /\ call' = Selected(kind, preferred_service, sel, pc)
    /\ UNCHANGED <<generations, default_service_name, ctx>>

\* mutant: the except block retries the request on the next endpoint of the registry
Raise_RetryOnNext ==
    LET next == (call.ep % Len(endpoints)) + 1
    IN  /\ endpoints' = FailedEndpoints(endpoints, call.ep)
        /\ consec' = IF call.ep = 1 THEN consec + 1 ELSE consec
        /\ call' = [call EXCEPT !.ep = next, !.contacted = @ \cup {next}]
        /\ UNCHANGED <<generations, default_service_name, ctx>>

\* `except Exception as e: ... endpoint.record_error(); raise`
Raise ==
    /\ endpoints' = FailedEndpoints(endpoints, call.ep)
    /\ consec' = IF call.ep = 1 THEN consec + 1 ELSE consec
    /\ call' = Ended(call, "raised")
    /\ UNCHANGED <<generations, default_service_name, ctx>>

Generate(preferred_service) == Begin("generate", preferred_service, "inflight")

\* generate_response: the backend answers 2xx with the JSON document `body`
GenerateResponse(body, time) ==
    /\ call.pc = "inflight" /\ call.kind = "generate"
    /\ LET n == NormalizeResponse(endpoints[call.ep].type, body)
       IN  IF n.raises
           THEN /\ endpoints' = FailedEndpoints(endpoints, call.ep)
                /\ consec' = IF call.ep = 1 THEN consec + 1 ELSE consec
                /\ call' = Ended([call EXCEPT !.body = body], "raised")
           ELSE /\ CanRecord
                /\ endpoints' = TimedEndpoints(endpoints, call.ep, time)
                /\ consec' = IF call.ep = 1 THEN 0 ELSE consec
                /\ call' = Ended([call EXCEPT !.body = body, !.result = n.result], "returned")
    /\ UNCHANGED <<generations, default_service_name, ctx>>

\* generate_response: network error, non-2xx status, timeout or a body that is no JSON
GenerateFail ==
    /\ call.pc = "inflight" /\ call.kind = "generate"
    /\ Raise

Stream(preferred_service) == Begin("stream", preferred_service, "streaming")

\* stream_response: the backend delivers one more line
StreamLine(line) ==
    /\ call.pc = "streaming"
    /\ Len(call.lines) < MaxLines
    /\ LET step == StreamLineStep(endpoints[call.ep].type, line)
           seen == [call EXCEPT !.lines = Append(@, line), !.yielded = @ \o step.yield]
       IN  IF step.raises
           THEN /\ endpoints' = FailedEndpoints(endpoints, call.ep)
                /\ consec' = IF call.ep = 1 THEN consec + 1 ELSE consec
                /\ call' = Ended(seen, "raised")
           ELSE IF step.done
           THEN \E time \in SampleTimes :
                /\ CanRecord
                /\ endpoints' = TimedEndpoints(endpoints, call.ep, time)
                /\ consec' = IF call.ep = 1 THEN 0 ELSE consec
                /\ call' = Ended(seen, "returned")
           ELSE /\ call' = seen
                /\ UNCHANGED <<endpoints, consec>>
    /\ UNCHANGED <<generations, default_service_name, ctx>>

\* stream_response: network error, non-2xx status or read timeout, before or between lines
StreamFail ==
    /\ call.pc = "streaming"
    /\ Raise

\* stream_response: the body ends without a terminal marker; the loop just ends
StreamEnd ==
    /\ call.pc = "streaming"
    /\ call' = Ended(call, "returned")
    /\ UNCHANGED <<generations, endpoints, default_service_name, consec, ctx>>

\* stream_response: the consumer closes the generator or its task is cancelled
\* (GeneratorExit, CancelledError: no Exception, so the except block is passed by)
StreamClose ==
    /\ call.pc = "streaming"
    /\ call' = Ended(call, "closed")
    /\ UNCHANGED <<generations, endpoints, default_service_name, consec, ctx>>

Embed == Begin("embed", None, "inflight")

\* create_embeddings: the backend answered; no response time is recorded
EmbedResponse ==
    /\ call.pc = "inflight" /\ call.kind = "embed"
    /\ call' = Ended(call, "returned")
    /\ UNCHANGED <<generations, endpoints, default_service_name, consec, ctx>>

EmbedFail ==
    /\ call.pc = "inflight" /\ call.kind = "embed"
    /\ Raise

\* list_models: every healthy endpoint is asked; the ones in `failing` raise
ListModels(failing) ==
    /\ call.pc = "idle"
    /\ failing \subseteq {i \in Indices(endpoints) : endpoints[i].is_healthy}
    /\ endpoints' = [i \in Indices(endpoints) |->
                        IF i \in failing THEN record_error(endpoints[i]) ELSE endpoints[i]]
    /\ consec' = IF 1 \in failing THEN consec + 1 ELSE consec
    /\ UNCHANGED <<generations, default_service_name, call, ctx>>

\* health_check: every endpoint is probed; the ones in `up` answer 200
HealthCheck(up) ==
    /\ call.pc = "idle"
    /\ up \subseteq Indices(endpoints)
    /\ endpoints' = [i \in Indices(endpoints) |->
                        IF i \in up THEN reset_health(endpoints[i]) ELSE endpoints[i]]
    /\ consec' = IF 1 \in up THEN 0 ELSE consec
    /\ UNCHANGED <<generations, default_service_name, call, ctx>>

\* the caller has the result or the exception; the service is free for the next call
Return ==
    /\ call.pc \in {"returned", "raised", "closed"}
    /\ call' = IdleCall
    /\ UNCHANGED <<generations, endpoints, default_service_name, consec, ctx>>

\* generate_response calls awaited side by side on one service (asyncio.gather,
\* tasks): each selects its endpoint, waits for the backend, and records its outcome
\* when the answer or the exception arrives.  record_response_time and record_error
\* contain no await, so each runs to its end before another task runs.
\* (failed, timed are history: the record_error calls since the last reset_health and
\* the samples recorded, in the order of the calls; old: the window at the start)
Generations == 1 .. MaxOverlap
NoGenerations ==
    [pc |-> [g \in Generations |-> "idle"], ep |-> [g \in Generations |-> None],
     failed |-> 0, timed |-> <<>>, old |-> <<>>]

\* generate_response up to `await client.post(...)`
GenerationBegins(g) ==
    /\ generations.pc[g] = "idle"
    /\ \A h \in Generations : h < g => generations.pc[h] # "idle"
    /\ LET sel == _select_endpoint(endpoints, default_service_name, None)
       IN  /\ sel.ret # None
           /\ endpoints' = sel.eps
           /\ consec' = IF sel.swept THEN 0 ELSE consec
           /\ generations' = [generations EXCEPT !.pc[g] = "inflight", !.ep[g] = sel.ret,
                                                 !.failed = IF sel.swept THEN 0 ELSE @]
    /\ UNCHANGED <<default_service_name, call, ctx>>

\* the backend answers: endpoint.record_response_time(response_time); return result
GenerationReturns(g, time) ==
    /\ generations.pc[g] = "inflight"
    /\ endpoints' = TimedEndpoints(endpoints, generations.ep[g], time)
    /\ consec' = 0
    /\ generations' = [generations EXCEPT !.pc[g] = "returned", !.timed = Append(@, time)]
    /\ UNCHANGED <<default_service_name, call, ctx>>

\* the request fails: `except Exception`: endpoint.record_error(); raise
GenerationRaises(g) ==
    /\ generations.pc[g] = "inflight"
    /\ endpoints' = FailedEndpoints(endpoints, generations.ep[g])
    /\ consec' = consec + 1
    /\ generations' = [generations EXCEPT !.pc[g] = "raised", !.failed = @ + 1]
    /\ UNCHANGED <<default_service_name, call, ctx>>

-----------------------------------------------------------------------------
(* ContextService *)

\* mutant: one token per character
estimate_tokens_Chars(text) == Len(text)

estimate_tokens(text) == Len(text) \div CharsPerToken

RECURSIVE TotalTokens(_)
TotalTokens(msgs) ==
    IF msgs = <<>> THEN 0 ELSE estimate_tokens(Head(msgs).content) + TotalTokens(Tail(msgs))

SummaryPrefix == "Previous conversation summary: "
\* _create_summary returns this placeholder for every input
\* mutant: the summary comes back empty, as when summarization fails
_create_summary_Fails(older) == ""

_create_summary(older) == "Conversation summary placeholder"

\* mutant: a message that does not fit is passed over (continue) and the scan goes on
RECURSIVE RecentMessages_Continue(_, _, _, _)
RecentMessages_Continue(msgs, k, tokens_used, max_tokens) ==
    IF k = 0 THEN <<>>
    ELSE LET message_tokens == estimate_tokens(msgs[k].content)
         IN  IF tokens_used + message_tokens <= max_tokens
             THEN Append(RecentMessages_Continue(msgs, k - 1, tokens_used + message_tokens,
                                                 max_tokens), msgs[k])
             ELSE RecentMessages_Continue(msgs, k - 1, tokens_used, max_tokens)

\* mutant: recent_messages.append(message) for insert(0, message): newest turn first
RECURSIVE RecentMessages_Appended(_, _, _, _)
RecentMessages_Appended(msgs, k, tokens_used, max_tokens) ==
    IF k = 0 THEN <<>>
    ELSE LET message_tokens == estimate_tokens(msgs[k].content)
         IN  IF tokens_used + message_tokens <= max_tokens
             THEN <<msgs[k]>> \o RecentMessages_Appended(msgs, k - 1,
                                                         tokens_used + message_tokens, max_tokens)
             ELSE <<>>

\* `for message in reversed(messages)`: the messages kept, scanning from index k down
\* with tokens_used tokens spent; stops at the first message that does not fit.
RECURSIVE RecentMessages(_, _, _, _)
RecentMessages(msgs, k, tokens_used, max_tokens) ==
    IF k = 0 THEN <<>>
    ELSE LET message_tokens == estimate_tokens(msgs[k].content)
         IN  IF tokens_used + message_tokens <= max_tokens
             THEN Append(RecentMessages(msgs, k - 1, tokens_used + message_tokens, max_tokens),
                         msgs[k])
             ELSE <<>>

\* mutant: a system message that does not fit the budget is left out
_compress_context_DropsOversizedSystem(all, max_tokens, llm_service) ==
    LET hasSystem  == all # <<>> /\ all[1].role = "system"
        messages   == IF hasSystem THEN Tail(all) ELSE all
        start      == IF hasSystem THEN estimate_tokens(all[1].content) ELSE 0
        compressed == IF hasSystem /\ start <= max_tokens THEN <<all[1]>> ELSE <<>>
        recent     == RecentMessages(messages, Len(messages), start, max_tokens)
        older      == SubSeq(messages, 1, Len(messages) - Len(recent))
        summary    == IF /\ Len(recent) < Len(messages)
                         /\ llm_service /\ Len(older) > SummaryMinOlder
                         /\ _create_summary(older) # ""
                      THEN <<[role |-> "system",
                              content |-> SummaryPrefix \o _create_summary(older)]>>
                      ELSE <<>>
    IN  compressed \o summary \o recent

_compress_context(all, max_tokens, llm_service) ==
    LET hasSystem  == all # <<>> /\ all[1].role = "system"
        messages   == IF hasSystem THEN Tail(all) ELSE all
        compressed == IF hasSystem THEN <<all[1]>> ELSE <<>>
        start      == IF hasSystem THEN estimate_tokens(all[1].content) ELSE 0
        recent     == RecentMessages(messages, Len(messages), start, max_tokens)
        older      == SubSeq(messages, 1, Len(messages) - Len(recent))
        summary    == IF /\ Len(recent) < Len(messages)
                         /\ llm_service /\ Len(older) > SummaryMinOlder
                         /\ _create_summary(older) # ""
                      THEN <<[role |-> "system",
                              content |-> SummaryPrefix \o _create_summary(older)]>>
                      ELSE <<>>
    IN  compressed \o summary \o recent

\* max_tokens None (and 0) selects self.max_tokens; an empty system_prompt adds no entry
build_messages_context(messages, system_prompt, max_tokens, llm_service) ==
    LET budget == IF max_tokens # None THEN max_tokens ELSE DefaultMaxTokens
        context_messages ==
            (IF system_prompt # "" THEN <<[role |-> "system", content |-> system_prompt]>>
             ELSE <<>>) \o messages
    IN  IF TotalTokens(context_messages) > budget
        THEN _compress_context(context_messages, budget, llm_service)
        ELSE context_messages

\* Inputs of the model: turns of 1 and of 3 estimated tokens, a system prompt of 2,
\* budgets that the system prompt alone exceeds (1), that one turn alone exceeds (2)
\* and that several turns fill (3, 6); a stored system turn can only matter in first
\* place, where _compress_context detaches it.
TurnTexts == {"abcd", "abcdefghijkl"}
SystemPrompts == {"", "You are."}
Budgets == {None, 1, 2, 3, 6}
Turn(role, content) == [role |-> role, content |-> content]
Turns == {Turn(r, c) : r \in {"user", "assistant"}, c \in TurnTexts}
FirstTurns == Turns \cup {Turn("system", c) : c \in TurnTexts}

\* a conversation's opening that is long enough to be summarized when it is excluded
OldTurns ==
    [i \in 1 .. (SummaryMinOlder + 1) |->
        Turn(IF i % 2 = 1 THEN "user" ELSE "assistant", "abcdefghijkl")]

\* every history of up to MaxTurns turns, and the long opening followed by one or
\* two turns
Histories ==
    {<<>>}
    \cup UNION {{<<f>> \o rest : f \in FirstTurns, rest \in [1 .. n -> Turns]} :
                    n \in 0 .. (MaxTurns - 1)}
    \cup UNION {{OldTurns \o rest : rest \in [1 .. n -> Turns]} : n \in 1 .. 2}

NoContext ==
    [pc |-> "none", messages |-> <<>>, system_prompt |-> "", max_tokens |-> None,
     llm_service |-> FALSE, context |-> <<>>]

\* build_messages_context on the inputs drawn by the initial state
Build ==
    /\ ctx.pc = "called"
    /\ ctx' = [ctx EXCEPT !.pc = "built",
                          !.context = build_messages_context(ctx.messages, ctx.system_prompt,
                                                             ctx.max_tokens, ctx.llm_service)]
    /\ UNCHANGED <<generations, endpoints, default_service_name, call, consec>>

\* LLMService.__init__: the registry from the configuration, all endpoints healthy
Registry(types) == [i \in 1 .. Len(types) |-> LLMEndpoint(i, types[i])]

-----------------------------------------------------------------------------
(* ConnectionManager and websocket_chat *)

\* The WebSockets of the model: two connections of the same user to the same chat,
\* so both carry the client_id f"{user.id}:{chat_id}".
WebSockets == {1, 2}
client_id == "u1:c1"

\* Python dicts
EmptyDict == [k \in {} |-> None]
Put(d, k, v) == [x \in (DOMAIN d) \cup {k} |-> IF x = k THEN v ELSE d[x]]
\* del d[k]: a key that is not there raises KeyError
KeyError == [x \in {"KeyError"} |-> None]
Del(d, k) == IF k \in DOMAIN d THEN [x \in (DOMAIN d) \ {k} |-> d[x]] ELSE KeyError

\* ConnectionManager.__init__
NewManager ==
    [active_connections |-> EmptyDict, connection_health |-> EmptyDict,
     heartbeat_tasks |-> EmptyDict]

\* Frames the server sends
NoId == <<>>
MessageId(w, turn, role) == <<w, turn, role>>
Frame(type, message_id, content, tokens_used) ==
    [type |-> type, message_id |-> message_id, content |-> content,
     tokens_used |-> tokens_used]
\* Frames the client sends: the "type" of a JSON object ("other": one the handler
\* does not know), or text that is no JSON
InboundFrames == {"message", "ping", "pong", "other", "malformed"}
\* The "content" of the frames a client sends, in the order they arrive
Questions == <<"q1", "q2", "q3", "q4">>
QuestionAt(n) == Questions[((n - 1) % Len(Questions)) + 1]
Inbound(type, content) == [type |-> type, content |-> content]
\* The fragments a backend stream yields, in turn
Fragments == <<"He", "llo">>
FragmentAt(n) == Fragments[(n % Len(Fragments)) + 1]

\* (interrupted is history: the generation that was streaming when the client left;
\* heard is history: when the connection was accepted or its handler last received a
\* JSON frame, whichever is later;
\* since, of a session: when its pending receive_json began to wait; of a heartbeat
\* task: when its asyncio.sleep began)
NewSocket ==
    [state |-> "connecting", inbox |-> <<>>, arrived |-> 0, sent |-> <<>>,
     interrupted |-> NoId, heard |-> 0]
\* the frames the clients have sent so far
Arrived(socks) == LET n(w) == socks[w].arrived IN n(1) + n(2)
NewSession ==
    [pc |-> "start", turn |-> 0, user_message |-> NoId, assistant_message |-> NoId,
     full_response |-> "", tokens_used |-> 0, ep |-> None, since |-> 0]
NoHeartbeat == [pc |-> "none", pinged |-> FALSE, since |-> 0]

\* send_json: the frame is sent and True returned when the socket is connected;
\* otherwise (the state test, or the send raising) nothing is sent and False returned
send_json(sock, frame) ==
    IF sock.state = "connected" THEN [sock EXCEPT !.sent = Append(@, frame)] ELSE sock

\* mutant: the time of the registration is kept
update_health_Keeps(m) == m

update_health(m) ==
    IF client_id \in DOMAIN m.connection_health
    THEN [m EXCEPT !.connection_health = Put(@, client_id, now)]
    ELSE m

\* mutant: the time of the last activity is left behind
disconnect_KeepsHealth(m) ==
    [active_connections |-> IF client_id \in DOMAIN m.active_connections
                            THEN Del(m.active_connections, client_id)
                            ELSE m.active_connections,
     connection_health |-> m.connection_health,
     heartbeat_tasks |-> IF client_id \in DOMAIN m.heartbeat_tasks
                         THEN Del(m.heartbeat_tasks, client_id)
                         ELSE m.heartbeat_tasks]

\* mutant: the deletions are not guarded
disconnect_Unguarded(m) ==
    [active_connections |-> Del(m.active_connections, client_id),
     connection_health |-> Del(m.connection_health, client_id),
     heartbeat_tasks |-> Del(m.heartbeat_tasks, client_id)]

\* `if client_id in d: del d[client_id]`
Discard(d) == IF client_id \in DOMAIN d THEN Del(d, client_id) ELSE d

\* ConnectionManager.disconnect: the three dicts lose the key ...
disconnect(m) ==
    [active_connections |-> Discard(m.active_connections),
     connection_health |-> Discard(m.connection_health),
     heartbeat_tasks |-> Discard(m.heartbeat_tasks)]
\* ... and the task registered under the key is cancelled unless it is done
CancelRegistered(m, hb) ==
    IF client_id \in DOMAIN m.heartbeat_tasks
    THEN LET t == m.heartbeat_tasks[client_id]
         IN  IF hb[t].pc = "sleeping" THEN [hb EXCEPT ![t].pc = "cancelled"] ELSE hb
    ELSE hb

\* ConnectionManager.connect, after authentication: accept, register under the
\* key (replacing what is there), start this connection's heartbeat task.
\* The connections are alike; they are numbered in the order they are made.
Connect(w) ==
    /\ session[w].pc = "start"
    /\ \A v \in WebSockets : v < w => session[v].pc # "start"
    /\ socket' = [socket EXCEPT ![w].state = "connected", ![w].heard = now]
    /\ manager' = [active_connections |-> Put(manager.active_connections, client_id, w),
                   connection_health |-> Put(manager.connection_health, client_id, now),
                   heartbeat_tasks |-> Put(manager.heartbeat_tasks, client_id, w)]
    /\ heartbeat' = [heartbeat EXCEPT ![w] = [pc |-> "sleeping", pinged |-> FALSE, since |-> now]]
    /\ session' = [session EXCEPT ![w].pc = "verify"]
    /\ UNCHANGED <<now, llm_services, db>>
    /\ UNCHANGED serviceVars

\* get_current_user_ws found no user: close(4001) and return, before any connect
Unauthorized(w) ==
    /\ session[w].pc = "start"
    /\ \A v \in WebSockets : v < w => session[v].pc # "start"
    /\ socket' = [socket EXCEPT ![w].state = "closed"]
    /\ session' = [session EXCEPT ![w].pc = "rejected"]
    /\ UNCHANGED <<now, manager, llm_services, heartbeat, db>>
    /\ UNCHANGED serviceVars

\* The `finally` of websocket_chat: manager.disconnect(client_id), then close the
\* socket unless the client has disconnected.
Teardown(w, sock) ==
    /\ manager' = disconnect(manager)
    /\ heartbeat' = CancelRegistered(manager, heartbeat)
    /\ socket' = [socket EXCEPT ![w] = IF sock.state = "connected"
                                       THEN [sock EXCEPT !.state = "closed"] ELSE sock]
    /\ session' = [session EXCEPT ![w].pc = "ended"]

\* The chat is not the user's: error frame, close(4004), return through `finally`
ChatNotFound(w) ==
    /\ session[w].pc = "verify"
    /\ LET sent == send_json(socket[w], Frame("error", NoId, "Chat not found", 0))
       IN  Teardown(w, sent)
    /\ UNCHANGED <<now, llm_services, db>>
    /\ UNCHANGED serviceVars

\* The chat is found: "connected" frame, then LLMService(), ContextService()
ChatVerified(w) ==
    /\ session[w].pc = "verify"
    /\ socket' = [socket EXCEPT ![w] = send_json(@, Frame("connected", NoId, "", 0))]
    /\ llm_services' = [llm_services EXCEPT ![w] = Registry(<<OLLAMA, LMSTUDIO>>)]
    /\ session' = [session EXCEPT ![w].pc = "receive", ![w].since = now]
    /\ UNCHANGED <<now, manager, heartbeat, db>>
    /\ UNCHANGED serviceVars

\* The client sends a frame; it waits in the socket's queue until received
ClientSend(w, f) ==
    /\ socket[w].state = "connected"
    /\ Arrived(socket) < MaxFrames
    /\ socket' = [socket EXCEPT
                    ![w].inbox = Append(@, Inbound(f, QuestionAt(socket[w].arrived + 1))),
                    ![w].arrived = @ + 1]
    /\ UNCHANGED <<now, manager, session, llm_services, heartbeat, db>>
    /\ UNCHANGED serviceVars

\* The client goes away; from now on sends fail and, once the queue is drained,
\* receive_json raises WebSocketDisconnect
ClientDisconnect(w) ==
    /\ socket[w].state = "connected"
    /\ socket' = [socket EXCEPT ![w].state = "disconnected",
                                ![w].interrupted = IF session[w].pc = "streaming"
                                                   THEN session[w].assistant_message
                                                   ELSE NoId]
    /\ UNCHANGED <<now, manager, session, llm_services, heartbeat, db>>
    /\ UNCHANGED serviceVars

Row(id, role, content, tokens_used) ==
    [id |-> id, role |-> role, content |-> content, tokens_used |-> tokens_used]

\* mutant: the next user turn is taken up while the stream is still running
Receive_WhileStreaming(w) ==
    /\ session[w].pc \in {"receive", "streaming"}
    /\ socket[w].inbox # <<>> /\ Head(socket[w].inbox).type = "message"
    /\ LET id == MessageId(w, session[w].turn + 1, "user")
           content == Head(socket[w].inbox).content
       IN  /\ db' = db \cup {Row(id, "user", content, 0)}
           /\ socket' = [socket EXCEPT ![w] =
                           send_json([@ EXCEPT !.inbox = Tail(@)],
                                     Frame("user_message", id, content, 0))]
           /\ session' = [session EXCEPT ![w].pc = "context", ![w].turn = @ + 1,
                                         ![w].user_message = id]
    /\ UNCHANGED <<now, manager, llm_services, heartbeat>>
    /\ UNCHANGED serviceVars

\* One turn of `while True`: receive_json returns the next frame of the queue and the
\* handler runs up to its next wait: for "message", up to the acknowledgement.
Receive(w) ==
    /\ session[w].pc = "receive"
    /\ socket[w].inbox # <<>>
    /\ LET data == Head(socket[w].inbox)
           rest == [socket[w] EXCEPT !.inbox = Tail(@),
                                     !.heard = IF data.type = "malformed" THEN @ ELSE now]
           turn == session[w].turn + 1
           id   == MessageId(w, turn, "user")
       IN  CASE data.type = "message" ->
                    /\ manager' = update_health(manager)
                    /\ db' = db \cup {Row(id, "user", data.content, 0)}
                    /\ socket' = [socket EXCEPT ![w] =
                                    send_json(rest, Frame("user_message", id, data.content, 0))]
                    /\ session' = [session EXCEPT ![w].pc = "context", ![w].turn = turn,
                                                  ![w].user_message = id]
              [] data.type = "ping" ->
                    /\ manager' = update_health(manager)
                    /\ socket' = [socket EXCEPT ![w] = send_json(rest, Frame("pong", NoId, "", 0))]
                    /\ session' = [session EXCEPT ![w].since = now]
                    /\ UNCHANGED db
              [] data.type \in {"pong", "other"} ->
                    /\ manager' = update_health(manager)
                    /\ socket' = [socket EXCEPT ![w] = rest]
                    /\ session' = [session EXCEPT ![w].since = now]
                    /\ UNCHANGED db
              [] data.type = "malformed" ->      \* receive_json raises; `except Exception`
                    /\ socket' = [socket EXCEPT ![w] =
                                    send_json(rest, Frame("error", NoId, "Message handling error", 0))]
                    /\ session' = [session EXCEPT ![w].since = now]
                    /\ UNCHANGED <<manager, db>>
    /\ UNCHANGED <<now, llm_services, heartbeat>>
    /\ UNCHANGED serviceVars

\* mutant: the disconnect is answered like any other exception and the loop goes on
ReceiveDisconnect_Continues(w) ==
    /\ session[w].pc = "receive"
    /\ socket[w].inbox = <<>>
    /\ socket[w].state = "disconnected"
    /\ socket' = [socket EXCEPT ![w] =
                    send_json(@, Frame("error", NoId, "Message handling error", 0))]
    /\ session' = [session EXCEPT ![w].since = now]
    /\ UNCHANGED <<now, manager, llm_services, heartbeat, db>>
    /\ UNCHANGED serviceVars

\* receive_json raises WebSocketDisconnect: break, and the `finally` runs
ReceiveDisconnect(w) ==
    /\ session[w].pc = "receive"
    /\ socket[w].inbox = <<>>
    /\ socket[w].state = "disconnected"
    /\ Teardown(w, socket[w])
    /\ UNCHANGED <<now, llm_services, db>>
    /\ UNCHANGED serviceVars

\* Embedding, context, the assistant placeholder row, "stream_start"
StartStream(w) ==
    /\ session[w].pc = "context"
    /\ LET id == MessageId(w, session[w].turn, "assistant")
       IN  /\ db' = db \cup {Row(id, "assistant", "", 0)}
           /\ socket' = [socket EXCEPT ![w] = send_json(@, Frame("stream_start", id, "", 0))]
           /\ session' = [session EXCEPT ![w].pc = "stream", ![w].assistant_message = id,
                                         ![w].full_response = "", ![w].tokens_used = 0]
    /\ UNCHANGED <<now, manager, llm_services, heartbeat>>
    /\ UNCHANGED serviceVars

\* mutant: the except block leaves the placeholder row in the store
StreamFailed_KeepsRow(w, eps) ==
    /\ llm_services' = [llm_services EXCEPT ![w] = eps]
    /\ socket' = [socket EXCEPT ![w] =
                    send_json(@, Frame("stream_error", session[w].assistant_message, "", 0))]
    /\ session' = [session EXCEPT ![w].pc = "receive", ![w].ep = None,
                                      ![w].since = now]
    /\ UNCHANGED db

\* mutant: the except block deletes the user's row together with the placeholder
StreamFailed_DeletesTurn(w, eps) ==
    LET id == session[w].assistant_message
    IN  /\ llm_services' = [llm_services EXCEPT ![w] = eps]
        /\ socket' = [socket EXCEPT ![w] = send_json(@, Frame("stream_error", id, "", 0))]
        /\ db' = {row \in db : row.id \notin {id, session[w].user_message}}
        /\ session' = [session EXCEPT ![w].pc = "receive", ![w].ep = None,
                                      ![w].since = now]

\* `except Exception` around the stream: "stream_error", delete the placeholder row
StreamFailed(w, eps) ==
    LET id == session[w].assistant_message
    IN  /\ llm_services' = [llm_services EXCEPT ![w] = eps]
        /\ socket' = [socket EXCEPT ![w] = send_json(@, Frame("stream_error", id, "", 0))]
        /\ db' = {row \in db : row.id # id}
        /\ session' = [session EXCEPT ![w].pc = "receive", ![w].ep = None,
                                      ![w].since = now]

\* mutant: the text is assembled newest fragment first
Accumulate_Prepend(full_response, chunk) == chunk \o full_response

\* full_response += chunk
Accumulate(full_response, chunk) == full_response \o chunk

\* assistant_message.content = full_response; .tokens_used = tokens_used; commit
Persisted(rows, id, content, tokens_used) ==
    {IF row.id = id THEN Row(id, row.role, content, tokens_used) ELSE row : row \in rows}

\* mutant: "stream_complete" goes out before "stream_end"
StreamCompleted_CompleteFirst(w, eps) ==
    LET id   == session[w].assistant_message
        text == session[w].full_response
        n    == session[w].tokens_used
    IN  /\ llm_services' = [llm_services EXCEPT ![w] = eps]
        /\ db' = Persisted(db, id, text, n)
        /\ socket' = [socket EXCEPT ![w] =
                        send_json(send_json(@, Frame("stream_complete", id, text, 0)),
                                  Frame("stream_end", id, text, n))]
        /\ session' = [session EXCEPT ![w].pc = "receive", ![w].ep = None,
                                      ![w].since = now]

\* The stream is over: the row gets the text, "stream_end" and "stream_complete" go out
StreamCompleted(w, eps) ==
    LET id   == session[w].assistant_message
        text == session[w].full_response
        n    == session[w].tokens_used
    IN  /\ llm_services' = [llm_services EXCEPT ![w] = eps]
        /\ db' = Persisted(db, id, text, n)
        /\ socket' = [socket EXCEPT ![w] =
                        send_json(send_json(@, Frame("stream_end", id, text, n)),
                                  Frame("stream_complete", id, text, 0))]
        /\ session' = [session EXCEPT ![w].pc = "receive", ![w].ep = None,
                                      ![w].since = now]

\* First step of `async for chunk in llm_services.stream_response(...)`: the endpoint
\* is selected on the session's own service; none available raises into the handler.
StreamSelect(w) ==
    /\ session[w].pc = "stream"
    /\ LET sel == _select_endpoint(llm_services[w], default_service_name, None)
       IN  IF sel.ret = None
           THEN StreamFailed(w, sel.eps)
           ELSE /\ llm_services' = [llm_services EXCEPT ![w] = sel.eps]
                /\ session' = [session EXCEPT ![w].pc = "streaming", ![w].ep = sel.ret]
                /\ UNCHANGED <<socket, db>>
    /\ UNCHANGED <<now, manager, heartbeat>>
    /\ UNCHANGED serviceVars

\* The stream yields a fragment: accumulate, count, forward as "stream_chunk"
StreamChunk(w, chunk) ==
    /\ session[w].pc = "streaming"
    /\ session[w].tokens_used < MaxChunks
    /\ session' = [session EXCEPT ![w].full_response = Accumulate(@, chunk),
                                  ![w].tokens_used = @ + 1]
    /\ socket' = [socket EXCEPT ![w] =
                    send_json(@, Frame("stream_chunk", session[w].assistant_message, chunk, 0))]
    /\ UNCHANGED <<now, manager, llm_services, heartbeat, db>>
    /\ UNCHANGED serviceVars

\* The stream reaches its terminal marker: the endpoint gets a response-time sample
StreamDone(w, time) ==
    /\ session[w].pc = "streaming"
    /\ StreamCompleted(w, TimedEndpoints(llm_services[w], session[w].ep, time))
    /\ UNCHANGED <<now, manager, heartbeat>>
    /\ UNCHANGED serviceVars

\* The request or a line of the stream raises: record_error, and the handler's except
StreamRaise(w) ==
    /\ session[w].pc = "streaming"
    /\ StreamFailed(w, FailedEndpoints(llm_services[w], session[w].ep))
    /\ UNCHANGED <<now, manager, heartbeat>>
    /\ UNCHANGED serviceVars

\* mutant: a failed ping ends the task and leaves the registration
HeartbeatWake_KeepsRegistration(w) ==
    /\ heartbeat[w].pc = "sleeping"
    /\ IF client_id \notin DOMAIN manager.active_connections
       THEN heartbeat' = [heartbeat EXCEPT ![w].pc = "done"]
       ELSE IF socket[w].state = "connected"
       THEN heartbeat' = [heartbeat EXCEPT ![w].pinged = TRUE, ![w].since = now]
       ELSE heartbeat' = [heartbeat EXCEPT ![w].pc = "failed"]
    /\ UNCHANGED <<now, manager, socket, session, llm_services, db>>
    /\ UNCHANGED serviceVars

\* _heartbeat_task after asyncio.sleep(heartbeat_interval): leave when the key is
\* not registered; else ping this task's socket, and disconnect the key on failure.
HeartbeatWake(w) ==
    /\ heartbeat[w].pc = "sleeping"
    /\ IF client_id \notin DOMAIN manager.active_connections
       THEN /\ heartbeat' = [heartbeat EXCEPT ![w].pc = "done"]
            /\ UNCHANGED manager
       ELSE IF socket[w].state = "connected"
       THEN /\ heartbeat' = [heartbeat EXCEPT ![w].pinged = TRUE, ![w].since = now]
            /\ UNCHANGED manager
       ELSE /\ manager' = disconnect(manager)
            /\ heartbeat' = [CancelRegistered(manager, heartbeat) EXCEPT ![w].pc = "failed"]
    /\ UNCHANGED <<now, socket, session, llm_services, db>>
    /\ UNCHANGED serviceVars

\* ConnectionManager.is_connection_healthy, at the time `now`
is_connection_healthy(m) ==
    IF client_id \notin DOMAIN m.connection_health THEN FALSE
    ELSE LET last_seen == m.connection_health[client_id]
             timeout_threshold == now - connection_timeout
         IN  last_seen > timeout_threshold

\* asyncio.wait_for(websocket.receive_json(), timeout=120.0) runs out: break to the
\* `finally` if the connection is not healthy, else wait again
ReceiveTimeout(w) ==
    /\ session[w].pc = "receive"
    /\ socket[w].inbox = <<>> /\ socket[w].state = "connected"
    /\ now >= session[w].since + receive_timeout
    /\ IF ~is_connection_healthy(manager)
       THEN Teardown(w, socket[w])
       ELSE /\ session' = [session EXCEPT ![w].since = now]
            /\ UNCHANGED <<manager, socket, heartbeat>>
    /\ UNCHANGED <<now, llm_services, db>>
    /\ UNCHANGED serviceVars

\* asyncio.sleep(self.heartbeat_interval) is over
HeartbeatDue(w) ==
    /\ now >= heartbeat[w].since + heartbeat_interval
    /\ HeartbeatWake(w)

\* Time passes, one heartbeat interval at a time, counted from the first
\* connection to the end of its handler.  It does not pass a sleep that is over or a receive that has a frame,
\* a disconnect or its timeout to return: those tasks run first.  Of the other
\* steps of a handler only the backend stream takes time.
Tick ==
    /\ now < MaxTicks * heartbeat_interval
    /\ session[1].pc \notin {"start", "rejected", "ended"}
    /\ \A w \in WebSockets :
            /\ heartbeat[w].pc = "sleeping" => now < heartbeat[w].since + heartbeat_interval
            /\ session[w].pc \notin {"verify", "context", "stream"}
            /\ session[w].pc = "receive" =>
                    /\ socket[w].inbox = <<>> /\ socket[w].state = "connected"
                    /\ now < session[w].since + receive_timeout
    /\ now' = now + heartbeat_interval
    /\ UNCHANGED <<manager, socket, session, llm_services, heartbeat, db>>
    /\ UNCHANGED serviceVars

-----------------------------------------------------------------------------
(* Specifications *)

InitService(types, default) ==
    /\ endpoints = Registry(types)
    /\ default_service_name = default
    /\ consec = 0
    /\ call = IdleCall
    /\ generations = NoGenerations

\* Spec: endpoint health and selection over sequences of calls.  The protocol of an
\* endpoint has no part in either, so the registry alternates the two kinds; streams
\* deliver the terminal marker as their first line and bodies are the protocol's own.
AlternatingTypes(n) == [i \in 1 .. n |-> IF i % 2 = 1 THEN OLLAMA ELSE LMSTUDIO]

\* No connection has been made
NoSessions ==
    /\ now = 0
    /\ manager = NewManager
    /\ socket = [w \in WebSockets |-> NewSocket]
    /\ session = [w \in WebSockets |-> NewSession]
    /\ llm_services = [w \in WebSockets |-> <<>>]
    /\ heartbeat = [w \in WebSockets |-> NoHeartbeat]
    /\ db = {}

Init ==
    /\ \E n \in 0 .. MaxEndpoints, d \in {None} \cup (1 .. MaxEndpoints) :
            InitService(AlternatingTypes(n), d)
    /\ ctx = NoContext
    /\ NoSessions

BodyOf(type, c) == IF type = OLLAMA THEN OllamaBody(c) ELSE OpenAIBody(c)

Next ==
    /\ UNCHANGED sessionVars
    /\ \/ \E p \in {None} \cup ServiceNames : Generate(p)
       \/ \E t \in SampleTimes :
               call.ep # None /\ GenerateResponse(BodyOf(endpoints[call.ep].type, "He"), t)
       \/ GenerateFail
       \/ \E p \in {None} \cup ServiceNames : Stream(p)
       \/ call.ep # None /\ StreamLine(DoneLineOf(endpoints[call.ep].type))
       \/ StreamFail
       \/ StreamEnd
       \/ StreamClose
       \/ Embed
       \/ EmbedResponse
       \/ EmbedFail
       \/ \E failing \in SUBSET (1 .. MaxEndpoints) : ListModels(failing)
       \/ \E up \in SUBSET (1 .. MaxEndpoints) : HealthCheck(up)
       \/ Return

Spec == Init /\ [][Next]_vars

\* SpecEndpoint: the methods of one LLMEndpoint called in any order, on an endpoint
\* that starts with an empty window, with a window one short of its capacity or
\* with a full one.  The samples on record at the start (OldSamples) differ from the
\* ones recorded later (SampleTimes), the oldest from the rest; MaxFed samples are
\* recorded on the empty window, MaxSamples on the others.
OldSamples == <<3, 4>>
Window(n) == [i \in 1 .. n |-> IF i = 1 THEN OldSamples[1] ELSE OldSamples[2]]

RECURSIVE Fresh(_)
Fresh(times) ==
    IF times = <<>> THEN 0
    ELSE (IF Head(times) \in SampleTimes THEN 1 ELSE 0) + Fresh(Tail(times))

InitEndpoint ==
    /\ \E n \in {0, SampleWindow - 1, SampleWindow} :
            endpoints = <<[LLMEndpoint(1, OLLAMA) EXCEPT !.response_times = Window(n)]>>
    /\ default_service_name = None
    /\ consec = 0
    /\ call = IdleCall
    /\ generations = NoGenerations
    /\ ctx = NoContext
    /\ NoSessions

\* endpoint.record_response_time(time)
RecordResponseTime(time) ==
    /\ LET times == endpoints[1].response_times
       IN  Fresh(times) < (IF Fresh(times) = Len(times) THEN MaxFed ELSE MaxSamples)
    /\ endpoints' = TimedEndpoints(endpoints, 1, time)
    /\ consec' = 0
    /\ UNCHANGED <<generations, default_service_name, call, ctx>>

\* endpoint.record_error(), on an endpoint that selection can return
RecordError ==
    /\ endpoints[1].is_healthy
    /\ endpoints' = FailedEndpoints(endpoints, 1)
    /\ consec' = consec + 1
    /\ UNCHANGED <<generations, default_service_name, call, ctx>>

\* endpoint.reset_health()
ResetHealth ==
    /\ endpoints' = [endpoints EXCEPT ![1] = reset_health(@)]
    /\ consec' = 0
    /\ UNCHANGED <<generations, default_service_name, call, ctx>>

NextEndpoint ==
    /\ UNCHANGED sessionVars
    /\ \/ \E time \in SampleTimes : RecordResponseTime(time)
       \/ RecordError
       \/ ResetHealth

SpecEndpoint == InitEndpoint /\ [][NextEndpoint]_vars

\* SpecOverlap: MaxOverlap generations awaited side by side on a service with one
\* endpoint, whose window is empty, one short of its capacity or full at the start;
\* they begin in turn and end in any order, each with an answer or a failure.
InitOverlap ==
    /\ \E n \in {0, SampleWindow - 1, SampleWindow} :
            /\ endpoints = <<[LLMEndpoint(1, OLLAMA) EXCEPT !.response_times = Window(n)]>>
            /\ generations = [NoGenerations EXCEPT !.old = Window(n)]
    /\ default_service_name = None
    /\ consec = 0
    /\ call = IdleCall
    /\ ctx = NoContext
    /\ NoSessions

NextOverlap ==
    /\ UNCHANGED sessionVars
    /\ \E g \in Generations :
            \/ GenerationBegins(g)
            \/ \E time \in SampleTimes : GenerationReturns(g, time)
            \/ GenerationRaises(g)

SpecOverlap == InitOverlap /\ [][NextOverlap]_vars

\* SpecProtocol: one call on a registry with one endpoint of each protocol, the
\* backend sending any of the model's lines and bodies.
InitProtocol ==
    /\ \E d \in {None, 1, 2} : InitService(<<OLLAMA, LMSTUDIO>>, d)
    /\ ctx = NoContext
    /\ NoSessions

NextProtocol ==
    /\ UNCHANGED sessionVars
    /\ \/ \E p \in {None, 1, 2} : Generate(p)
       \/ \E body \in Bodies, t \in SampleTimes : GenerateResponse(body, t)
       \/ GenerateFail
       \/ \E p \in {None, 1, 2} : Stream(p)
       \/ call.ep # None /\ \E line \in LinesOf(endpoints[call.ep].type) : StreamLine(line)
       \/ StreamFail
       \/ StreamEnd
       \/ StreamClose

SpecProtocol == InitProtocol /\ [][NextProtocol]_vars

\* SpecContext: build_messages_context applied to every input of the bounded sets.
InitContext ==
    /\ InitService(<<>>, None)
    /\ NoSessions
    /\ \E m \in Histories, sp \in SystemPrompts, b \in Budgets, llm \in BOOLEAN :
            ctx = [pc |-> "called", messages |-> m, system_prompt |-> sp, max_tokens |-> b,
                   llm_service |-> llm, context |-> <<>>]

NextContext == Build /\ UNCHANGED sessionVars

SpecContext == InitContext /\ [][NextContext]_vars

\* SpecSession: one connection, its client, handler and heartbeat task interleaved
\* at the awaits; no receive waits out its timeout.
InitSession ==
    /\ InitService(<<>>, None)
    /\ ctx = NoContext
    /\ NoSessions

Client(w, frames) ==
    \/ \E f \in frames : ClientSend(w, f)
    \/ ClientDisconnect(w)

websocket_chat(w) ==
    \/ Connect(w)
    \/ Unauthorized(w)
    \/ ChatNotFound(w)
    \/ ChatVerified(w)
    \/ Receive(w)
    \/ ReceiveDisconnect(w)
    \/ StartStream(w)
    \/ StreamSelect(w)
    \/ StreamDone(w, 1)
    \/ StreamRaise(w)

NextSession ==
    \/ Client(1, InboundFrames)
    \/ websocket_chat(1)
    \/ StreamChunk(1, FragmentAt(session[1].tokens_used))
    \/ HeartbeatWake(1)

SpecSession == InitSession /\ [][NextSession]_vars

\* SpecReconnect: two connections under the same key, each with its client, handler
\* and heartbeat task; the clients send user turns only and the streams are empty.
NextReconnect ==
    \E w \in WebSockets :
        \/ Client(w, {"message"})
        \/ websocket_chat(w)
        \/ HeartbeatWake(w)

SpecReconnect == InitSession /\ [][NextReconnect]_vars

\* SpecLiveness: one connection with the clock running: the heartbeat task wakes
\* every heartbeat_interval, a receive waits receive_timeout at most; the streams are
\* empty.  Every task that can run does run (the event loop), and time passes.
Handler(w) == websocket_chat(w) \/ ReceiveTimeout(w)

NextLiveness ==
    \/ Client(1, {"message", "pong", "malformed"})
    \/ Handler(1)
    \/ HeartbeatDue(1)
    \/ Tick

SpecLiveness ==
    /\ InitSession /\ [][NextLiveness]_vars
    /\ WF_vars(Handler(1)) /\ WF_vars(HeartbeatDue(1)) /\ WF_vars(Tick)

\* SpecTimedReconnect: two connections under the same key with the clock running.
\* Both are authorized and find their chat; the clients send pongs or nothing, so
\* the handlers only ever wait in receive_json.
Waiting(w) ==
    \/ Connect(w)
    \/ ChatVerified(w)
    \/ Receive(w)
    \/ ReceiveDisconnect(w)
    \/ ReceiveTimeout(w)

NextTimedReconnect ==
    \/ \E w \in WebSockets :
            \/ Client(w, {"pong"})
            \/ Waiting(w)
            \/ HeartbeatDue(w)
    \/ Tick

SpecTimedReconnect == InitSession /\ [][NextTimedReconnect]_vars

-----------------------------------------------------------------------------
(* Endpoint health and selection: claims C1 - C5, under Spec *)

\* a step that runs _select_endpoint: the start of generate_response,
\* stream_response or create_embeddings
SelectStep == call.pc = "idle" /\ call'.pc # "idle"

Healthy(eps) == {i \in Indices(eps) : eps[i].is_healthy}
\* i's average is at most j's
AvgAtMost(eps, i, j) ==
    ~AvgLess(average_response_time(eps[j]), average_response_time(eps[i]))
Named(eps, name) == {i \in Indices(eps) : eps[i].name = name}

\* C1: after any sequence of recorded successes, failures and resets on one endpoint
\* (the first of the registry), the endpoint is unhealthy if and only if at least 3
\* consecutive failures have been recorded since its last success or reset.
C1_UnhealthyIffThreeConsecutiveFailures ==
    endpoints # <<>> => ((~endpoints[1].is_healthy) <=> (consec >= 3))

\* C2: _select_endpoint never returns an endpoint that is unhealthy at return time;
\* called on a non-empty registry whose endpoints are all unhealthy, it returns an
\* endpoint of lowest average response time and leaves every endpoint healthy with
\* error_count 0.
C2_SelectNeverReturnsUnhealthy ==
    [][SelectStep =>
        LET ret == call'.ep
        IN  /\ ret # None => endpoints'[ret].is_healthy
            /\ (endpoints # <<>> /\ Healthy(endpoints) = {}) =>
                    /\ ret # None
                    /\ \A j \in Indices(endpoints) : AvgAtMost(endpoints, ret, j)
                    /\ \A j \in Indices(endpoints') :
                            endpoints'[j].is_healthy /\ endpoints'[j].error_count = 0
      ]_vars

\* C2 witness: a call holds the endpoint that a full reset of a two-endpoint
\* registry returned, the other endpoint being strictly slower.
C2_Witness ==
    /\ call.pc \in {"inflight", "streaming"}
    /\ call.swept
    /\ Len(endpoints) = 2
    /\ \E j \in Indices(endpoints) :
            AvgLess(average_response_time(endpoints[call.ep]),
                    average_response_time(endpoints[j]))

\* C3: _select_endpoint(preferred) returns the preferred endpoint if it is named and
\* healthy; otherwise the default endpoint if it is healthy; otherwise the healthy
\* endpoint of minimum average response time, the earliest in registry order among
\* ties (healthy: at call time, or after the reset when none was).
C3_SelectPriority ==
    [][SelectStep =>
        LET ret  == call'.ep
            pref == Named(endpoints, call'.pref) \cap Healthy(endpoints)
            dflt == Named(endpoints, default_service_name) \cap Healthy(endpoints)
            pool == Healthy(endpoints')
        IN  IF call'.pref # None /\ pref # {} THEN ret \in pref
            ELSE IF default_service_name # None /\ dflt # {} THEN ret \in dflt
            ELSE IF pool = {} THEN ret = None
            ELSE /\ ret \in pool
                 /\ \A j \in pool : AvgAtMost(endpoints, ret, j)
                 /\ \A j \in pool : AvgAtMost(endpoints, j, ret) => ret <= j
      ]_vars

\* C3 witness: neither the preferred nor the default name gave the endpoint in use:
\* it is the second of the registry, strictly faster than the healthy first one.
C3_Witness ==
    /\ call.pc \in {"inflight", "streaming"}
    /\ ~call.swept
    /\ call.ep = 2 /\ call.pref # 2 /\ default_service_name # 2
    /\ endpoints[1].is_healthy
    /\ AvgLess(average_response_time(endpoints[2]), average_response_time(endpoints[1]))

\* C4: _select_endpoint returns None if and only if the registry is empty.
C4_SelectNoneIffEmptyRegistry ==
    [][SelectStep => (call'.ep = None <=> endpoints = <<>>)]_vars

\* C4 witness: generate_response found no endpoint in an empty registry.
C4_Witness ==
    call.pc = "raised" /\ call.kind = "generate" /\ call.ep = None /\ endpoints = <<>>

\* C5: a transport failure of generate_response or stream_response adds exactly one
\* to the selected endpoint's error counter, leaves the other endpoints alone, reaches
\* the caller as an exception, and the call has contacted no other endpoint.
C5_FailureCountsOnceAndPropagates ==
    [][(GenerateFail \/ StreamFail) =>
        /\ endpoints'[call.ep].error_count = endpoints[call.ep].error_count + 1
        /\ \A j \in Indices(endpoints) \ {call.ep} : endpoints'[j] = endpoints[j]
        /\ call'.pc = "raised"
        /\ call'.contacted = {call.ep}
      ]_vars

\* C5 witness: a streaming call on a two-endpoint registry has raised after its
\* endpoint's second recorded error, having contacted that endpoint alone.
C5_Witness ==
    /\ call.pc = "raised" /\ call.kind = "stream"
    /\ Len(endpoints) = 2
    /\ call.contacted = {call.ep}
    /\ endpoints[call.ep].error_count = 2

-----------------------------------------------------------------------------
(* The two protocols: claims C6 - C9, under SpecProtocol *)

Min(a, b) == IF a <= b THEN a ELSE b
Last(s) == s[Len(s)]
NonEmptyStrings(s) == SelectSeq(s, LAMBDA c : c # "")

StreamOn(type) ==
    call.kind = "stream" /\ call.ep # None /\ endpoints[call.ep].type = type

\* the line is a JSON object, read as the OLLAMA branch reads the line, as the
\* LMSTUDIO branch reads the payload of a data frame
IsObjectLine(line) ==
    line.prefix = "" /\ line.payload.kind = "json" /\ line.payload.value.type = "object"
IsObjectFrame(line) ==
    line.prefix = DataPrefix /\ line.payload.kind = "json"
        /\ line.payload.value.type = "object"

\* message.content of a line ("" when it has none)
MessageContent(line) ==
    IF IsObjectLine(line)
    THEN LET f == line.payload.value.fields
         IN  IF "message" \in DOMAIN f /\ "content" \in DOMAIN f.message
             THEN f.message.content ELSE ""
    ELSE ""
\* the line carries done:true
IsDoneLine(line) ==
    IsObjectLine(line)
        /\ LET f == line.payload.value.fields IN "done" \in DOMAIN f /\ f.done = TRUE

\* choices[0].delta.content of a data frame ("" when it has none)
DeltaContent(line) ==
    IF IsObjectFrame(line)
    THEN LET f == line.payload.value.fields
         IN  IF "choices" \in DOMAIN f /\ f.choices # <<>>
                 /\ "delta" \in DOMAIN f.choices[1] /\ "content" \in DOMAIN f.choices[1].delta
             THEN f.choices[1].delta.content ELSE ""
    ELSE ""

\* index of the first terminal marker among the lines, Len + 1 without one
FirstDoneLine(lines) ==
    IF \E k \in 1 .. Len(lines) : IsDoneLine(lines[k])
    THEN CHOOSE k \in 1 .. Len(lines) :
            IsDoneLine(lines[k]) /\ \A j \in 1 .. (k - 1) : ~IsDoneLine(lines[j])
    ELSE Len(lines) + 1
FirstDoneFrame(lines) ==
    IF \E k \in 1 .. Len(lines) : lines[k] = DoneFrame
    THEN CHOOSE k \in 1 .. Len(lines) :
            lines[k] = DoneFrame /\ \A j \in 1 .. (k - 1) : lines[j] # DoneFrame
    ELSE Len(lines) + 1

MessageContents(lines, n) == NonEmptyStrings([i \in 1 .. n |-> MessageContent(lines[i])])
DeltaContents(lines, n) == NonEmptyStrings([i \in 1 .. n |-> DeltaContent(lines[i])])

\* C6 as claimed: on an OLLAMA endpoint the fragments yielded are the non-empty
\* message.content values of the lines before the first done:true line, in order;
\* that line contributes no fragment and ends the stream.
C6_OllamaYieldsContentsBeforeDone ==
    StreamOn(OLLAMA) =>
        LET k == FirstDoneLine(call.lines)
        IN  /\ call.yielded = MessageContents(call.lines, Min(k - 1, Len(call.lines)))
            /\ k <= Len(call.lines) => (k = Len(call.lines) /\ call.pc = "returned")

\* C6 as amended: the fragments yielded are the non-empty message.content values of
\* the lines up to and including the first done:true line, in order; that line ends
\* the stream and nothing is read after it.
C6_OllamaYieldsContentsThroughDone ==
    StreamOn(OLLAMA) =>
        LET k == FirstDoneLine(call.lines)
        IN  /\ call.yielded = MessageContents(call.lines, Min(k, Len(call.lines)))
            /\ k <= Len(call.lines) => (k = Len(call.lines) /\ call.pc = "returned")

\* C6 witness: the stream He, llo + done:true has ended having yielded He, llo.
C6_Witness ==
    /\ StreamOn(OLLAMA) /\ call.pc = "returned"
    /\ call.lines = <<Line("", JsonText(OllamaChunk("He", FALSE))),
                      Line("", JsonText(OllamaChunk("llo", TRUE)))>>
    /\ call.yielded = <<"He", "llo">>

\* json.loads fails on the line (OLLAMA) or on the frame's payload (LMSTUDIO)
Malformed(type, line) ==
    IF type = OLLAMA
    THEN ~IsBlank(line) /\ ~(line.prefix = "" /\ line.payload.kind = "json")
    ELSE line.prefix = DataPrefix /\ line.payload.kind = "text"
            /\ line.payload.text # "[DONE]"

\* C7: in both protocols a line or frame that fails to parse is skipped: the step
\* that reads it yields nothing, leaves the stream running, raises nothing and
\* records nothing against the endpoint, so the call goes on as if without it.
C7_MalformedLineIsSkipped ==
    [][(/\ call.pc = "streaming"
        /\ Len(call'.lines) = Len(call.lines) + 1
        /\ Malformed(endpoints[call.ep].type, Last(call'.lines)))
       => /\ call' = [call EXCEPT !.lines = call'.lines]
          /\ endpoints' = endpoints
      ]_vars

\* C7 witness: a malformed line between two content lines, both fragments yielded
C7_Witness ==
    /\ call.pc = "streaming" /\ call.ep # None
    /\ Len(call.lines) = 3
    /\ Malformed(endpoints[call.ep].type, call.lines[2])
    /\ call.yielded = <<"He", "llo">>

\* C8: on an LMSTUDIO endpoint the fragments yielded are the non-empty
\* choices[0].delta.content values of the data frames before the first
\* "data: [DONE]" frame, in order; that frame ends the stream.
C8_LMStudioYieldsDeltasBeforeDone ==
    StreamOn(LMSTUDIO) =>
        LET k == FirstDoneFrame(call.lines)
        IN  /\ call.yielded = DeltaContents(call.lines, Min(k - 1, Len(call.lines)))
            /\ k <= Len(call.lines) => (k = Len(call.lines) /\ call.pc = "returned")

\* C8 witness: a frame with empty content, a frame with content, then [DONE]
C8_Witness ==
    /\ StreamOn(LMSTUDIO) /\ call.pc = "returned"
    /\ call.lines = <<Line(DataPrefix, JsonText(SseChunk(""))),
                      Line(DataPrefix, JsonText(SseChunk("He"))), DoneFrame>>
    /\ call.yielded = <<"He">>

\* the normalized shape of a blocking result: its message.content and done
ResultShape(v) ==
    IF /\ v.type = "object"
       /\ {"message", "done"} \subseteq DOMAIN v.fields
       /\ "content" \in DOMAIN v.fields.message
    THEN [content |-> v.fields.message.content, done |-> v.fields.done]
    ELSE [content |-> "", done |-> FALSE]

\* C9: generate_response returns the same normalized shape for both protocols: the
\* LMSTUDIO body {choices:[{message:{content:c}}]} and the OLLAMA body
\* {message:{content:c}, done:true} both give message.content = c and done = true.
C9_SameNormalizedShape ==
    (call.kind = "generate" /\ call.pc = "returned") =>
        \A c \in Contents :
            call.body = BodyOf(endpoints[call.ep].type, c) =>
                ResultShape(call.result) = [content |-> c, done |-> TRUE]

\* C9 witness: generate_response on the LMSTUDIO endpoint returned the OpenAI body
C9_Witness ==
    /\ call.kind = "generate" /\ call.pc = "returned"
    /\ endpoints[call.ep].type = LMSTUDIO
    /\ call.body = OpenAIBody("He")

-----------------------------------------------------------------------------
(* The context builder: claim C10, under SpecContext *)

RECURSIVE EstimateSum(_)
EstimateSum(msgs) ==
    IF msgs = <<>> THEN 0 ELSE (Len(Head(msgs).content) \div 4) + EstimateSum(Tail(msgs))

SystemEntry(prompt) ==
    IF prompt = "" THEN <<>> ELSE <<[role |-> "system", content |-> prompt]>>
Budget(max_tokens) == IF max_tokens = None THEN 4000 ELSE max_tokens
InputEstimate == EstimateSum(SystemEntry(ctx.system_prompt) \o ctx.messages)

\* C10: when the summed estimate (len // 4 per entry) of the system prompt and all
\* turns is at most the budget, the context is the system entry, if a system prompt
\* was given, followed by every turn in its original order, and nothing else.
C10_FittingHistoryIsPassedThrough ==
    (ctx.pc = "built" /\ InputEstimate <= Budget(ctx.max_tokens)) =>
        ctx.context = SystemEntry(ctx.system_prompt) \o ctx.messages

\* C10 witness: a system prompt and several turns that fill the budget exactly
C10_Witness ==
    /\ ctx.pc = "built"
    /\ ctx.system_prompt # "" /\ Len(ctx.messages) >= 2
    /\ ctx.max_tokens # None /\ InputEstimate = ctx.max_tokens

-----------------------------------------------------------------------------
(* The context builder under compression: claims C11 to C14, under SpecContext *)

AllEntries == SystemEntry(ctx.system_prompt) \o ctx.messages
\* the leading system entry, if there is one, and the turns after it
LeadingSystem ==
    IF AllEntries # <<>> /\ AllEntries[1].role = "system" THEN <<AllEntries[1]>> ELSE <<>>
ConversationTurns == SubSeq(AllEntries, Len(LeadingSystem) + 1, Len(AllEntries))
Suffix(s, k) == SubSeq(s, Len(s) - k + 1, Len(s))

\* the trailing run of k turns fits the budget with the system entry counted up front
RunFits(k) ==
    EstimateSum(LeadingSystem) + EstimateSum(Suffix(ConversationTurns, k))
        <= Budget(ctx.max_tokens)
LongestFittingRun ==
    LET fitting == {0} \cup {k \in 0 .. Len(ConversationTurns) : RunFits(k)}
    IN  CHOOSE k \in fitting : \A j \in fitting : j <= k

IsSummaryEntry(e) ==
    /\ e.role = "system"
    /\ Len(e.content) >= 31
    /\ SubSeq(e.content, 1, 31) = "Previous conversation summary: "
IsTurnEntry(e) == ~IsSummaryEntry(e)
SummaryCount == Len(SelectSeq(ctx.context, IsSummaryEntry))
\* the turns of the returned context: what follows the leading system entry, less
\* the synthesized entries
KeptTurns ==
    SelectSeq(SubSeq(ctx.context, Len(LeadingSystem) + 1, Len(ctx.context)), IsTurnEntry)
Excluded == Len(ConversationTurns) - Len(KeptTurns)
Compressed == ctx.pc = "built" /\ InputEstimate > Budget(ctx.max_tokens)

\* C11: when the total estimate exceeds the budget, the turns of the returned context
\* are exactly the longest trailing contiguous run of turns whose estimates, added to
\* the system entry's, stay within the budget: each kept turn is whole and nothing
\* older than the first turn that overflows is kept.
C11_KeptTurnsAreLongestFittingSuffix ==
    Compressed =>
        /\ KeptTurns = Suffix(ConversationTurns, LongestFittingRun)
        /\ SubSeq(ctx.context, 1, Len(LeadingSystem)) = LeadingSystem

\* C11 witness: an older small turn would still fit after the turn that overflowed
C11_Witness ==
    /\ Compressed
    /\ Len(KeptTurns) >= 2 /\ Excluded >= 2
    /\ LeadingSystem # <<>>
    /\ \E i \in 1 .. (Excluded - 1) :
            EstimateSum(LeadingSystem) + EstimateSum(KeptTurns)
                + EstimateSum(<<ConversationTurns[i]>>) <= Budget(ctx.max_tokens)

\* C12 as stated: when compression excludes more than 4 turns the context holds
\* exactly one synthesized summary entry, and when it excludes 1 to 4 turns, none.
C12_SummaryIffMoreThanFourExcluded ==
    Compressed =>
        /\ Excluded > 4 => SummaryCount = 1
        /\ Excluded \in 1 .. 4 => SummaryCount = 0

\* C12 as amended: with a summarization collaborator configured, excluding more than
\* 4 turns gives exactly one synthesized summary entry, placed right after the system
\* entry; excluding 1 to 4 turns, or having no collaborator, gives none.
C12_SummaryIffCollaboratorAndMoreThanFourExcluded ==
    Compressed =>
        /\ (ctx.llm_service /\ Excluded > 4) =>
                /\ SummaryCount = 1
                /\ IsSummaryEntry(ctx.context[Len(LeadingSystem) + 1])
        /\ (~ctx.llm_service \/ Excluded \in 1 .. 4) => SummaryCount = 0

\* C12 witness: five turns excluded with a collaborator, one summary entry synthesized
C12_Witness ==
    /\ Compressed /\ ctx.llm_service
    /\ Excluded = 5 /\ SummaryCount = 1 /\ LeadingSystem # <<>>

\* C13: the estimates of all entries of the returned context (system and summary
\* entries included) add up to at most the budget, unless a single entry of the input
\* alone exceeds the budget.
C13_ContextWithinBudget ==
    ctx.pc = "built" =>
        \/ EstimateSum(ctx.context) <= Budget(ctx.max_tokens)
        \/ \E i \in 1 .. Len(AllEntries) :
                EstimateSum(<<AllEntries[i]>>) > Budget(ctx.max_tokens)

\* C14: when the most recent turn alone is too large for the budget, it is in the
\* returned context all the same, in full.
C14_OversizedTurnIsIncluded ==
    (/\ ctx.pc = "built" /\ ConversationTurns # <<>>
     /\ EstimateSum(<<Last(ConversationTurns)>>) > Budget(ctx.max_tokens)) =>
        /\ ctx.context # <<>>
        /\ Last(ctx.context) = Last(ConversationTurns)

-----------------------------------------------------------------------------
(* Sessions: claims C15 to C20, under SpecReconnect and SpecSession *)

Registered == client_id \in DOMAIN manager.heartbeat_tasks
\* the heartbeat task of connection w sends a ping in this step
Pings(w) == heartbeat[w].pc = "sleeping" /\ ~heartbeat[w].pinged /\ heartbeat'[w].pinged

\* C15: one session is active per key: a connect for a key that has a session
\* replaces the registration and cancels the old session's heartbeat task, so the
\* only heartbeat task that ever sends a ping for the key is the registered one.
C15_OnlyRegisteredHeartbeatPings ==
    [][\A w \in WebSockets :
            /\ (session[w].pc = "start" /\ session'[w].pc = "verify") =>
                    /\ manager'.active_connections[client_id] = w
                    /\ \A v \in WebSockets \ {w} : heartbeat'[v].pc # "sleeping"
            /\ Pings(w) => (Registered /\ manager.heartbeat_tasks[client_id] = w)]_vars

\* the row of the generation in progress on connection w
AssistantRows(w, rows) == {row \in rows : row.id = session[w].assistant_message}
DisconnectedMidStream(w) ==
    /\ socket[w].state = "disconnected" /\ session[w].pc = "streaming"
    /\ socket[w].interrupted = session[w].assistant_message

\* C16: once the client has disconnected during a stream, no further fragment is
\* taken from the backend, the generation leaves no assistant row in the store, and
\* the session's heartbeat task is released when the session ends.
C16_DisconnectCancelsGeneration ==
    [][\A w \in WebSockets :
            /\ DisconnectedMidStream(w) =>
                    /\ session'[w].tokens_used = session[w].tokens_used
                    /\ session'[w].pc # "streaming" => AssistantRows(w, db') = {}
            /\ session'[w].pc = "ended" => heartbeat'[w].pc # "sleeping"]_vars

HasService(w) == session[w].pc \in {"receive", "context", "stream", "streaming"}

\* C17: endpoint health is one process-wide state: the error counter a session's
\* selection reads for an endpoint holds the failures recorded by every session.
C17_HealthSharedAcrossSessions ==
    \A v, w \in WebSockets :
        (HasService(v) /\ HasService(w)) =>
            \A i \in Indices(llm_services[v]) :
                llm_services[v][i].error_count = llm_services[w][i].error_count

\* the frames of the log that belong to a turn, and the turn they belong to
OfTurn(f) == f.message_id # NoId
TurnOf(f) == f.message_id[2]
Terminal(f) == f.type \in {"stream_end", "stream_error"}
ArrivalOf(content) == CHOOSE n \in 1 .. Len(Questions) : Questions[n] = content

\* C18: within one session the turns are processed in arrival order and one at a
\* time: in the frames sent on a connection the turns never interleave, a frame of a
\* later turn comes only after the terminal frame (stream_end or stream_error) of
\* every earlier turn, and the turns are acknowledged in the order they arrived.
C18_TurnsInOrderAndNeverOverlapping ==
    \A w \in WebSockets :
        LET log == socket[w].sent
        IN  \A i, j \in 1 .. Len(log) :
                (i < j /\ OfTurn(log[i]) /\ OfTurn(log[j])) =>
                    /\ TurnOf(log[i]) <= TurnOf(log[j])
                    /\ TurnOf(log[i]) < TurnOf(log[j]) =>
                            \E k \in 1 .. (j - 1) :
                                Terminal(log[k]) /\ TurnOf(log[k]) = TurnOf(log[i])
                    /\ (log[i].type = "user_message" /\ log[j].type = "user_message") =>
                            ArrivalOf(log[i].content) < ArrivalOf(log[j].content)

\* C18 witness: two turns on one connection, each with a fragment streamed
C18_Witness ==
    LET log == socket[1].sent
    IN  /\ \E i, j \in 1 .. Len(log) :
                /\ log[i].type = "stream_chunk" /\ TurnOf(log[i]) = 1
                /\ log[j].type = "stream_chunk" /\ TurnOf(log[j]) = 2
        /\ socket[1].interrupted = NoId /\ socket[1].arrived = 2

RECURSIVE Concatenated(_)
Concatenated(frames) ==
    IF frames = <<>> THEN "" ELSE Head(frames).content \o Concatenated(Tail(frames))

\* the stream_chunk frames sent for message id
ChunksOf(log, id) ==
    LET IsChunk(f) == f.type = "stream_chunk" /\ f.message_id = id
    IN  SelectSeq(log, IsChunk)

\* C19: a stream_end frame carries the contents of all stream_chunk frames sent for
\* its message_id, concatenated in order, its tokens_used is their number, and the
\* assistant row of the store holds the same text.
C19_StreamEndCarriesFullText ==
    \A w \in WebSockets :
        LET log == socket[w].sent
        IN  \A k \in 1 .. Len(log) :
                log[k].type = "stream_end" =>
                    LET chunks == ChunksOf(log, log[k].message_id)
                    IN  /\ log[k].content = Concatenated(chunks)
                        /\ log[k].tokens_used = Len(chunks)
                        /\ \E row \in db :
                                /\ row.id = log[k].message_id
                                /\ row.role = "assistant"
                                /\ row.content = log[k].content

\* C19 witness: a stream of two different fragments has completed
C19_Witness ==
    \E k \in 1 .. Len(socket[1].sent) :
        LET f == socket[1].sent[k]
        IN  f.type = "stream_end" /\ f.tokens_used = 2 /\ f.content = "Hello"

\* the generation on connection w fails in this step: its endpoint gets an error
StreamFails(w) ==
    /\ session[w].pc = "streaming"
    /\ llm_services'[w][session[w].ep].error_count
            > llm_services[w][session[w].ep].error_count

\* a message_id with a stream_error frame has no stream_end or stream_complete
\* frame and no row
FailedLeavesNothing ==
    \A w \in WebSockets :
        LET log == socket[w].sent
        IN  \A i \in 1 .. Len(log) :
                log[i].type = "stream_error" =>
                    /\ \A k \in 1 .. Len(log) :
                            log[k].message_id = log[i].message_id =>
                                log[k].type \in {"stream_start", "stream_chunk",
                                                 "stream_error"}
                    /\ \A row \in db : row.id # log[i].message_id

\* C20: when a stream fails, a stream_error frame for the message_id goes out (to a
\* client that is connected), the frames sent before stay as they are, and from then
\* on there is neither a stream_end frame nor an assistant row for that message_id.
C20_FailureEndsWithStreamError ==
    [][/\ \A w \in WebSockets :
            StreamFails(w) =>
                LET id == session[w].assistant_message
                    error == Frame("stream_error", id, "", 0)
                IN  /\ socket'[w].sent = IF socket[w].state = "connected"
                                         THEN Append(socket[w].sent, error)
                                         ELSE socket[w].sent
                    /\ \A row \in db' : row.id # id
       /\ FailedLeavesNothing']_vars

\* C20 witness: a stream failed after a fragment had been sent
C20_Witness ==
    LET log == socket[1].sent
    IN  /\ Len(log) >= 2
        /\ log[Len(log)].type = "stream_error"
        /\ log[Len(log) - 1].type = "stream_chunk"
        /\ log[Len(log) - 1].message_id = log[Len(log)].message_id
        /\ session[1].pc = "receive"

-----------------------------------------------------------------------------
(* Endpoint bookkeeping: claims C26, C28, C29, under Spec *)

\* C26: in every state reached by record_error, record_response_time, reset_health,
\* _select_endpoint and health_check, an endpoint's is_healthy is false if and only
\* if its error_count is >= 3; reset_health sets error_count to 0 and is_healthy to
\* true.
C26_UnhealthyIffThreeErrors ==
    \A i \in Indices(endpoints) :
        /\ (~endpoints[i].is_healthy) <=> (endpoints[i].error_count >= ErrorThreshold)
        /\ reset_health(endpoints[i]).error_count = 0
        /\ reset_health(endpoints[i]).is_healthy

\* C26 witness: one endpoint went unhealthy at its third error while the other,
\* with a sample and one error on record, is still healthy.
C26_Witness ==
    /\ Len(endpoints) = 2
    /\ \E i, j \in Indices(endpoints) :
            /\ ~endpoints[i].is_healthy /\ endpoints[i].error_count = ErrorThreshold
            /\ endpoints[j].is_healthy /\ endpoints[j].error_count = 1
            /\ endpoints[j].response_times # <<>>

\* C28: when at least one endpoint is healthy at call time, _select_endpoint changes
\* no endpoint state (health flag, error counter, sample window), whatever the
\* preferred name; its only side effect is the reset of all endpoints when none is
\* healthy.
C28_SelectChangesNothingWhenOneIsHealthy ==
    [][SelectStep =>
        IF Healthy(endpoints) # {}
        THEN endpoints' = endpoints
        ELSE endpoints' = [i \in Indices(endpoints) |-> reset_health(endpoints[i])]
      ]_vars

\* C28 witness: a call was given the name of an unhealthy endpoint, was served by the
\* other, healthy one, and the unhealthy endpoint still has its flag and its counter.
C28_Witness ==
    /\ call.pc \in {"inflight", "streaming"}
    /\ ~call.swept
    /\ \E i \in Indices(endpoints) :
            /\ endpoints[i].name = call.pref
            /\ ~endpoints[i].is_healthy /\ endpoints[i].error_count = ErrorThreshold
            /\ call.ep # i /\ endpoints[call.ep].error_count > 0

\* a step in which a generate_response or stream_response call that reached a
\* backend ends (returns, raises, or is closed by its consumer)
CallEnds ==
    /\ call.pc \in {"inflight", "streaming"}
    /\ call.kind \in {"generate", "stream"}
    /\ call'.pc \in {"returned", "raised", "closed"}

\* C29: every generate_response or stream_response call that reaches a backend and
\* then ends records exactly one outcome against the selected endpoint, however the
\* response ends: one response-time sample on completion or one error on failure,
\* never both and never neither.
C29_ExactlyOneOutcomeRecorded ==
    [][CallEnds =>
        LET before  == endpoints[call.ep]
            after   == endpoints'[call.ep]
            samples == Len(after.response_times) - Len(before.response_times)
            errors  == after.error_count - before.error_count
        IN  samples + errors = 1 /\ samples >= 0 /\ errors >= 0
      ]_vars

-----------------------------------------------------------------------------
(* The sample window: claims C25, C27, under SpecEndpoint *)

\* a / b = c / d, for fractions with positive denominators
AvgEqual(a, b) == a.num * b.den = b.num * a.den

\* a new endpoint after record_response_time of each sample of `times`, in order
RECURSIVE Fed(_)
Fed(times) ==
    IF times = <<>> THEN LLMEndpoint(1, OLLAMA)
    ELSE record_response_time(Fed(SubSeq(times, 1, Len(times) - 1)), times[Len(times)])

\* C25: average_response_time is the mean of at most the 10 most recent samples:
\* an endpoint that started without samples and was fed t1..tn, n > 10 (n = 11
\* among them), has the same average as one fed only t2..tn, and with zero samples
\* the average is 0.
C25_AverageOfLastTen ==
    LET times == endpoints[1].response_times
    IN  /\ (Len(times) > AverageWindow /\ Fresh(times) = Len(times)) =>
                AvgEqual(average_response_time(endpoints[1]),
                         average_response_time(Fed(Tail(times))))
        /\ times = <<>> => average_response_time(endpoints[1]).num = 0

\* C25 witness: eleven samples were recorded on a new endpoint, the first one
\* slower than each of the ten that followed.
C25_Witness ==
    LET times == endpoints[1].response_times
    IN  /\ Len(times) = AverageWindow + 1
        /\ times[1] = 2
        /\ \A i \in 2 .. Len(times) : times[i] = 1

\* C27: record_response_time appends the sample to the endpoint's window, keeps only
\* the 100 most recent samples by dropping the oldest, and leaves error_count and
\* is_healthy unchanged.
C27_RecordResponseTimeFrame ==
    [][\A time \in SampleTimes : RecordResponseTime(time) =>
        LET before == endpoints[1]
            after  == endpoints'[1]
        IN  /\ after.response_times =
                    LastN(Append(before.response_times, time), SampleWindow)
            /\ Len(after.response_times) <= SampleWindow
            /\ after.error_count = before.error_count
            /\ after.is_healthy = before.is_healthy
      ]_vars

\* C27 witness: the window is full, the oldest sample of the start is gone from it
\* and the newest sample is a recorded one; the endpoint, unhealthy before, still is.
C27_Witness ==
    LET ep == endpoints[1]
    IN  /\ Len(ep.response_times) = SampleWindow
        /\ ep.response_times[1] # OldSamples[1]
        /\ ep.response_times[SampleWindow] \in SampleTimes
        /\ ~ep.is_healthy /\ ep.error_count = ErrorThreshold

-----------------------------------------------------------------------------
(* Teardown: claim C24, under SpecReconnect *)

\* no deletion of the call raised
Deleted(m) ==
    /\ m.active_connections # KeyError
    /\ m.connection_health # KeyError
    /\ m.heartbeat_tasks # KeyError

\* C24: session teardown is idempotent: calling ConnectionManager.disconnect twice
\* for the same key (or for a key that is not registered) does not raise and leaves
\* the registry, and the heartbeat tasks, in the same state as calling it once.
C24_DisconnectIsIdempotent ==
    LET once    == disconnect(manager)
        hbOnce  == CancelRegistered(manager, heartbeat)
        twice   == disconnect(once)
        hbTwice == CancelRegistered(once, hbOnce)
    IN  /\ Deleted(once) /\ Deleted(twice)
        /\ twice = once /\ hbTwice = hbOnce
        /\ client_id \notin DOMAIN once.active_connections
        /\ client_id \notin DOMAIN once.connection_health
        /\ client_id \notin DOMAIN once.heartbeat_tasks
        /\ manager = NewManager => (once = manager /\ hbOnce = heartbeat)

\* C24 witness: both handlers of the key have run their `finally`: the first
\* disconnect removed the second connection's registration and cancelled its
\* heartbeat task, the second found nothing under the key.
C24_Witness ==
    /\ session[1].pc = "ended" /\ session[2].pc = "ended"
    /\ heartbeat[2].pc = "cancelled"
    /\ manager = NewManager

-----------------------------------------------------------------------------
(* The frames of a turn: claim C30, under SpecSession *)

\* the frames sent on connection w for its turn t (the acknowledgement carries the
\* id of the user row, the stream frames the id of the assistant row), in order
FramesOfTurn(w, t) ==
    LET Is(f) == OfTurn(f) /\ TurnOf(f) = t
    IN  SelectSeq(socket[w].sent, Is)

\* the handler is through with turn t of connection w and the client never left,
\* so every frame of the turn was sent
TurnDelivered(w, t) ==
    /\ socket[w].state \in {"connected", "closed"}
    /\ \/ t < session[w].turn
       \/ t = session[w].turn /\ session[w].pc \in {"receive", "ended"}

\* user_message, stream_start, then stream_chunk and terminal frames
OpensInOrder(fs) ==
    \A i \in 1 .. Len(fs) :
        /\ (i = 1) <=> (fs[i].type = "user_message")
        /\ (i = 2) <=> (fs[i].type = "stream_start")
        /\ fs[i].message_id[3] = (IF i = 1 THEN "user" ELSE "assistant")

Terminals(fs) == {i \in 1 .. Len(fs) : Terminal(fs[i])}

-----------------------------------------------------------------------------
(* Liveness of a connection: claims C22, C23, C21, under SpecLiveness *)

\* the session's key is registered
IsRegistered == client_id \in DOMAIN manager.connection_health
\* seconds since the last inbound activity of the connection
Silence == now - socket[1].heard
\* the handler takes a pong off the queue
ReceivesPong ==
    /\ Receive(1)
    /\ Head(socket[1].inbox).type = "pong"

HeartbeatFailed == heartbeat[1].pc = "failed"
Unregistered ==
    /\ client_id \notin DOMAIN manager.active_connections
    /\ client_id \notin DOMAIN manager.connection_health
    /\ client_id \notin DOMAIN manager.heartbeat_tasks

\* C23: if a heartbeat ping cannot be sent, the session is treated as dead and torn
\* down: its registration is removed, its heartbeat stops sending (the task has
\* ended for good), and the session's message loop eventually terminates.
C23_FailedPingTearsDown ==
    [](HeartbeatFailed =>
            /\ Unregistered
            /\ [](HeartbeatFailed /\ Unregistered)
            /\ <>(session[1].pc = "ended"))

\* C23 witness: the ping failed while a generation was running for a client that
\* had left; the handler has not noticed yet.
C23_Witness ==
    /\ HeartbeatFailed /\ Unregistered
    /\ session[1].pc = "streaming" /\ socket[1].state = "disconnected"

TornDown == session[1].pc = "ended"
\* the handler is at work on a user turn
InTurn == session[1].pc \in {"context", "stream", "streaming"}
\* the terminal frame of the handler's latest turn has been sent
TurnClosed ==
    \E i \in 1 .. Len(socket[1].sent) :
        LET f == socket[1].sent[i]
        IN  Terminal(f) /\ OfTurn(f) /\ TurnOf(f) = session[1].turn
\* a frame that is no JSON waits in the queue
MalformedWaits ==
    \E i \in 1 .. Len(socket[1].inbox) : socket[1].inbox[i].type = "malformed"
\* the handler receives it
ReceivesMalformed ==
    /\ Receive(1)
    /\ Head(socket[1].inbox).type = "malformed"
\* the client has gone: sends fail and receive raises
Gone == socket[1].state = "disconnected"

\* C21: under fairness every failure path of a session ends in a terminal outbound
\* frame or in teardown: a turn in progress (its backend failing or not, its frames
\* sent or not) reaches its stream_end or stream_error frame or the teardown; a
\* malformed inbound frame is received and answered by an error frame (sent, if the
\* client is there) and the loop goes on; a client that has gone (sends fail,
\* receive raises) and a failed heartbeat lead to teardown.  No receive waits longer
\* than its timeout, and a session never ends but through teardown: the key
\* unregistered, the heartbeat task over, the socket closed.
C21_FailurePathsEndInFrameOrTeardown ==
    /\ InTurn ~> (TurnClosed \/ TornDown)
    /\ MalformedWaits ~> (~MalformedWaits \/ TornDown)
    /\ [][ReceivesMalformed =>
            /\ session'[1].pc = "receive"
            /\ socket[1].state = "connected" =>
                    socket'[1].sent = Append(socket[1].sent,
                                             Frame("error", NoId, "Message handling error", 0))
         ]_vars
    /\ (Gone \/ HeartbeatFailed) ~> TornDown
    /\ [](session[1].pc = "receive" => now - session[1].since <= receive_timeout)
    /\ [](TornDown => /\ Unregistered
                      /\ heartbeat[1].pc # "sleeping"
                      /\ socket[1].state \in {"closed", "disconnected"})

\* C21 witness: the session was torn down after a malformed frame had been answered
\* by an error frame, a generation had failed with stream_error, the client had
\* left and the heartbeat had failed to ping.
C21_Witness ==
    /\ TornDown /\ HeartbeatFailed /\ socket[1].state = "disconnected"
    /\ \E i, j \in 1 .. Len(socket[1].sent) :
            /\ socket[1].sent[i].type = "error"
            /\ socket[1].sent[j].type = "stream_error"


-----------------------------------------------------------------------------
(* The compressed context: claims C34, C35, under SpecContext *)

\* the contexts the ordering allows: the leading system entry, then at most one
\* entry that no input holds and that carries the summary prefix, then a trailing run
\* of the conversation's turns, as they were and in their order
OrderedContexts ==
    {LeadingSystem \o s \o Suffix(ConversationTurns, k) :
        s \in {<<>>} \cup {<<e>> : e \in {x \in {ctx.context[i] : i \in DOMAIN ctx.context} :
                                              IsSummaryEntry(x)}},
        k \in 0 .. Len(ConversationTurns)}

\* C34: the context returned after compression is the original system entry if there
\* is one, then the summary entry if one was synthesized, then the kept recent turns
\* in their original chronological order, and nothing else.
C34_CompressedContextOrder ==
    Compressed => ctx.context \in OrderedContexts

\* C34 witness: all three parts are there: the system entry, the summary entry and
\* two kept turns that differ
C34_Witness ==
    /\ Compressed /\ LeadingSystem # <<>> /\ SummaryCount = 1
    /\ Len(ctx.context) = 4
    /\ ctx.context[1] = LeadingSystem[1]
    /\ IsSummaryEntry(ctx.context[2])
    /\ ctx.context[3] # ctx.context[4]
    /\ ctx.context[4] = Last(ConversationTurns)

\* the system prompt alone is estimated above the budget
OversizedPrompt ==
    /\ ctx.system_prompt # ""
    /\ EstimateSum(SystemEntry(ctx.system_prompt)) > Budget(ctx.max_tokens)

\* C35: when the system prompt alone exceeds the budget, the call still returns a
\* context, and its first entry is the system prompt in full.
C35_OversizedSystemPromptIsFirst ==
    (ctx.pc = "built" /\ OversizedPrompt) =>
        /\ ctx.context # <<>>
        /\ ctx.context[1] = [role |-> "system", content |-> ctx.system_prompt]

\* C35 witness: an oversized system prompt in front of a conversation
C35_Witness ==
    /\ ctx.pc = "built" /\ OversizedPrompt
    /\ Len(ctx.messages) >= 2
    /\ ctx.context[1].content = ctx.system_prompt


-----------------------------------------------------------------------------
(* Recovery of an endpoint: claim C38, under Spec *)

\* a step of health_check in which endpoint i answers its probe with 200
ProbeSucceeds(i) == \E up \in SUBSET Indices(endpoints) : i \in up /\ HealthCheck(up)
\* a step of _select_endpoint that finds no healthy endpoint and resets them all
RecoverySweep == SelectStep /\ Healthy(endpoints) = {}

\* C38: is_healthy goes from false to true only in a health_check whose probe of the
\* endpoint succeeds or in the sweep of a _select_endpoint that finds every endpoint
\* unhealthy; so in a step that starts with another endpoint healthy and is no
\* successful probe of it, an unhealthy endpoint stays unhealthy and is not the one
\* selected.
C38_RecoveryOnlyByProbeOrSweep ==
    [][\A i \in Indices(endpoints) :
            ~endpoints[i].is_healthy =>
                /\ endpoints'[i].is_healthy => (ProbeSucceeds(i) \/ RecoverySweep)
                /\ (Healthy(endpoints) # {} /\ ~ProbeSucceeds(i)) =>
                        /\ ~endpoints'[i].is_healthy
                        /\ SelectStep => call'.ep # i]_vars

\* C38 witness: a call that prefers the unhealthy endpoint is served by the healthy one
C38_Witness ==
    /\ Len(endpoints) = 2
    /\ ~endpoints[1].is_healthy /\ endpoints[2].is_healthy
    /\ call.pc \in {"inflight", "streaming"} /\ call.pref = 1 /\ call.ep = 2


-----------------------------------------------------------------------------
(* Overlapping generations on one endpoint: claim C33, under SpecOverlap *)

\* generations that began one after the other are waiting at the same time
Overlapping == Cardinality({g \in Generations : generations.pc[g] = "inflight"}) >= 2

\* C33: however the failures and successes of overlapping generations interleave on
\* an endpoint, its error_count is the number of failures recorded since its last
\* reset, its health flag is decided by that number alone, and its window is the
\* 100 latest of the samples it had and the ones recorded since: no update is lost.
C33_ConcurrentUpdatesAreNotLost ==
    /\ endpoints[1].error_count = generations.failed
    /\ endpoints[1].is_healthy <=> generations.failed < ErrorThreshold
    /\ endpoints[1].response_times =
            LastN(generations.old \o generations.timed, SampleWindow)

\* C33 witness: all generations were waiting at once; three have failed and one has
\* succeeded since, on a window that was one short of full
C33_Witness ==
    /\ \A g \in Generations : generations.pc[g] \in {"returned", "raised"}
    /\ generations.failed >= ErrorThreshold /\ generations.timed # <<>>
    /\ Len(generations.old) = SampleWindow - 1
    /\ Len(endpoints[1].response_times) = SampleWindow
    /\ ~endpoints[1].is_healthy


-----------------------------------------------------------------------------
(* The store after a failed generation: claim C39, under SpecSession *)

\* C39: when the generation of a turn fails, the row of the turn's user message
\* stays in the store, the row that goes is the assistant placeholder of that
\* generation and no other, every other row is as it was, and the handler waits for
\* the next inbound frame on a connection it has neither closed nor unregistered.
C39_FailureRemovesOnlyThePlaceholder ==
    [][\A w \in WebSockets :
            StreamFails(w) =>
                LET id == session[w].assistant_message
                IN  /\ Row(id, "assistant", "", 0) \in db
                    /\ db' = db \ {Row(id, "assistant", "", 0)}
                    /\ \E row \in db' :
                            row.id = session[w].user_message /\ row.role = "user"
                    /\ session'[w].pc = "receive"
                    /\ session'[w].turn = session[w].turn
                    /\ socket'[w].state = socket[w].state
                    /\ socket'[w].inbox = socket[w].inbox
                    /\ manager' = manager]_vars

\* C39 witness: the second turn failed after the first had completed: the store
\* holds the first turn's two rows and the second turn's user row, and the handler
\* is waiting for the next frame of a connected client
C39_Witness ==
    /\ session[1].pc = "receive" /\ session[1].turn = 2
    /\ socket[1].state = "connected"
    /\ socket[1].sent # <<>>
    /\ socket[1].sent[Len(socket[1].sent)].type = "stream_error"
    /\ {row.id : row \in db} =
            {MessageId(1, 1, "user"), MessageId(1, 1, "assistant"), MessageId(1, 2, "user")}
    /\ \E row \in db : row.id = MessageId(1, 1, "assistant") /\ row.content = "Hello"


-----------------------------------------------------------------------------
(* The receive timeout: claim C37, under SpecTimedReconnect *)

\* the wait_for of connection w runs out in this step
TimeoutFires(w) ==
    /\ session[w].pc = "receive"
    /\ socket[w].inbox = <<>> /\ socket[w].state = "connected"
    /\ now >= session[w].since + receive_timeout
    /\ session'[w] # session[w]

\* C37: whenever the receive timeout of a session fires, the liveness check reports
\* the session unhealthy and the loop exits to the teardown; the handler never goes
\* back to waiting after a timeout.
C37_TimeoutAlwaysTearsDown ==
    [][\A w \in WebSockets :
            TimeoutFires(w) =>
                /\ ~is_connection_healthy(manager)
                /\ session'[w].pc = "ended"]_vars


-----------------------------------------------------------------------------
(* Teardown of a replaced session: claim C36, under SpecReconnect *)

\* the key is registered to the newer connection, whose handler is running
NewerRegistered ==
    /\ session[2].pc \notin {"start", "rejected", "ended"}
    /\ client_id \in DOMAIN manager.active_connections
    /\ manager.active_connections[client_id] = 2
    /\ client_id \in DOMAIN manager.heartbeat_tasks
    /\ manager.heartbeat_tasks[client_id] = 2
\* the older session tears down in this step: its handler reaches the end of its
\* `finally`, or its heartbeat task gives up after a failed ping
OlderTearsDown ==
    \/ session[1].pc # "ended" /\ session'[1].pc = "ended"
    \/ heartbeat[1].pc = "sleeping" /\ heartbeat'[1].pc = "failed"

\* C36: when the older session of a key tears down after a newer session of the key
\* has connected, the newer session's registration, its last-activity time and its
\* heartbeat task are as they were.
C36_OlderTeardownSparesNewerSession ==
    [][(NewerRegistered /\ OlderTearsDown) =>
            /\ manager' = manager
            /\ heartbeat'[2] = heartbeat[2]]_vars


-----------------------------------------------------------------------------
(* The three dicts of the registry: claim C32, under SpecReconnect *)

\* C32: connect, disconnect and the teardown after a failed ping each run to their
\* end without another task in between, so in every state they leave, however the
\* two connections of the key interleave them, the three dicts hold the same keys,
\* and no deletion has raised KeyError.
C32_RegistryKeySetsAgree ==
    /\ DOMAIN manager.active_connections = DOMAIN manager.connection_health
    /\ DOMAIN manager.connection_health = DOMAIN manager.heartbeat_tasks
    /\ DOMAIN manager.active_connections \subseteq {client_id}
    /\ KeyError \notin {manager.active_connections, manager.connection_health,
                        manager.heartbeat_tasks}

\* C32 witness: the first connection was torn down twice, by its heartbeat task after
\* a failed ping and by its handler, and the second connection has registered since
C32_Witness ==
    /\ heartbeat[1].pc = "failed" /\ session[1].pc = "ended"
    /\ session[2].pc = "receive" /\ heartbeat[2].pc = "sleeping"
    /\ DOMAIN manager.active_connections = {client_id}
    /\ DOMAIN manager.connection_health = {client_id}
    /\ DOMAIN manager.heartbeat_tasks = {client_id}


-----------------------------------------------------------------------------
(* A session that was torn down: claim C31, under SpecSession *)

\* connection w was registered and its registration has been removed
RegistrationRemoved(w) ==
    /\ session[w].pc \notin {"start", "rejected"}
    /\ client_id \notin DOMAIN manager.active_connections

\* C31: once the registration of a session has been removed (by its handler's
\* teardown after a disconnect, a close or a liveness timeout, or by its heartbeat
\* task after a failed ping), the session is not registered again and its handler
\* takes up no further user turn.
C31_TornDownSessionIsOver ==
    [][\A w \in WebSockets :
            RegistrationRemoved(w) =>
                /\ RegistrationRemoved(w)'
                /\ session'[w].turn = session[w].turn
                /\ session[w].pc = "ended" => session'[w] = session[w]]_vars

====
